---- MODULE Spec2Model ----
(***************************************************************************)
(* Ethereum ledger settlement engine (interledger-settlement-engines,      *)
(* engines/ethereum_ledger): the request handlers create_account,          *)
(* send_money, receive_message and get_account of                          *)
(* EthereumLedgerSettlementEngine, run against the in-memory TestStore     *)
(* (address store + idempotency cache) and an Ethereum node.               *)
(*                                                                         *)
(* Strings are sequences of string pieces, byte vectors are sequences of   *)
(* integers 0..255, Option<T> is <<>> (None) or <<x>> (Some(x)).           *)
(***************************************************************************)
EXTENDS Integers, Sequences, FiniteSets, TLC

(* ------------------------------ bounds -------------------------------- *)

\* number of requests the engine receives in one run
MaxRequests == 3

\* number of request task slots; Spec admits a request only when every slot
\* is idle, SpecConc whenever a slot is free
MaxInFlight == 2

Slots == 1..MaxInFlight

\* number of requests the engine receives in a run in which the requests, or
\* the saves they spawned, overlap
MaxOverlapping == 2

\* the node's count of mined transactions of the engine's address when the
\* run starts
InitialCount == 0

(* ------------------------------ options ------------------------------- *)

None == <<>>

Some(x) == <<x>>

is_some(o) == o # <<>>

unwrap(o) == o[1]

(* ------------------------------ inputs -------------------------------- *)

\* fixtures.rs BOB: 2fcd07047c209c46a767f8338cb0b14955826826
BOB_ADDR ==
  <<47, 205, 7, 4, 124, 32, 156, 70, 167, 103, 248, 51, 140, 176, 177, 73, 85, 130, 104, 38>>

\* fixtures.rs token address eeee...ee
TOKEN_ADDR == [i \in 1..20 |-> 238]

\* eth_engine.rs tests ALICE_ADDR, as the test passes it: Vec::from(&str),
\* the 40 ASCII bytes of the hex text
ALICE_ADDR ==
  <<51, 99, 100, 98, 51, 100, 57, 101, 49, 98, 55, 52, 54, 57, 50, 98, 98, 49, 101, 51,
    98, 98, 53, 102, 99, 56, 49, 57, 51, 56, 49, 53, 49, 99, 97, 54, 52, 98, 48, 50>>

\* request bodies handed to create_account: 20 bytes, 40 bytes, 40 other
\* bytes, and a byte vector of another length
CreateBodies ==
  { BOB_ADDR, BOB_ADDR \o TOKEN_ADDR, ALICE_ADDR, <<1, 2, 3>> }

\* SettlementData.amount values
Amounts == {42, 100}

\* account id strings of the URL path: "0", "42" and the unparsable "x"
AccountIdStrings == { <<"0">>, <<"4", "2">>, <<"x">> }

\* Idempotency-Key header values
Keys == { None, Some("AJKJNUjM0oyiAN46") }

(* --------------------------- text rendering --------------------------- *)

Digits == <<"0", "1", "2", "3", "4", "5", "6", "7", "8", "9">>

HexDigits ==
  <<"0", "1", "2", "3", "4", "5", "6", "7", "8", "9", "a", "b", "c", "d", "e", "f">>

\* Display of an unsigned integer: decimal digits, no leading zeros
RECURSIVE to_string(_)
to_string(n) ==
  IF n < 10 THEN <<Digits[n + 1]>>
  ELSE to_string(n \div 10) \o <<Digits[(n % 10) + 1]>>

\* u64::from_str: Some(value) for a non-empty string of decimal digits,
\* None otherwise
DigitValue(c) == CHOOSE d \in 0..9 : Digits[d + 1] = c

IsDigit(c) == \E d \in 0..9 : Digits[d + 1] = c

RECURSIVE digits_value(_)
digits_value(s) ==
  IF s = <<>> THEN 0
  ELSE 10 * digits_value(SubSeq(s, 1, Len(s) - 1)) + DigitValue(s[Len(s)])

\* from_str with unparsable text read as 0
from_str_lossy(s) ==
  IF s # <<>> /\ \A i \in 1..Len(s) : IsDigit(s[i])
    THEN Some(digits_value(s))
    ELSE Some(0)

from_str(s) ==
  IF s # <<>> /\ \A i \in 1..Len(s) : IsDigit(s[i])
    THEN Some(digits_value(s))
    ELSE None

\* Debug of Vec<u8>: "[b1, b2, ...]"
RECURSIVE debug_items(_)
debug_items(v) ==
  IF v = <<>> THEN <<>>
  ELSE IF Len(v) = 1 THEN to_string(v[1])
  ELSE to_string(v[1]) \o <<", ">> \o debug_items(Tail(v))

debug_vec(v) == <<"[">> \o debug_items(v) \o <<"]">>

\* Debug of SettlementData
debug_settlement_data(amount) ==
  <<"SettlementData { amount: ">> \o to_string(amount) \o <<" }">>

\* Debug of a String: the text in double quotes
debug_str(s) == <<"\"">> \o s \o <<"\"">>

\* serde rendering of an Address: "0x" and two hex digits per byte
RECURSIVE hex_bytes(_)
hex_bytes(v) ==
  IF v = <<>> THEN <<>>
  ELSE <<HexDigits[(v[1] \div 16) + 1], HexDigits[(v[1] % 16) + 1]>> \o hex_bytes(Tail(v))

json_address(a) == <<"\"0x">> \o hex_bytes(a) \o <<"\"">>

json_option_address(o) == IF is_some(o) THEN json_address(unwrap(o)) ELSE <<"null">>

\* json!({"ethereum_address": .., "token_address": ..}).to_string()
json_addresses(ethereum_address, token_address) ==
  <<"{\"ethereum_address\":">> \o json_address(ethereum_address)
    \o <<",\"token_address\":">> \o json_option_address(token_address) \o <<"}">>

(* ------------------------------ hashing ------------------------------- *)

\* SHA-256 of the preimage; the digest is kept as the tagged preimage,
\* i.e. SHA-256 is taken to be collision free
get_hash_of(preimage) == <<"sha256", preimage>>

\* format!("{}{:?}", account_id, body)
format_input(account_id, debug_body) == account_id \o debug_body

(* ------------------------------ responses ----------------------------- *)

\* a handler's result: Ok(Response) when ok, Err(Response) otherwise
Response(is_ok, status, body) == [ok |-> is_ok, status |-> status, body |-> body]

\* hyper StatusCode::is_success
is_success(status) == status >= 200 /\ status < 300

Ok(v) == [ok |-> TRUE, val |-> v]

Err(e) == [ok |-> FALSE, val |-> e]

(* ------------------------------ TestStore ----------------------------- *)

\* HashMap::insert
insert(map, k, v) == [x \in (DOMAIN map) \cup {k} |-> IF x = k THEN v ELSE map[x]]

\* TestStore::save_account_addresses: inserts each (id, data) pair in turn
RECURSIVE insert_all(_, _, _)
insert_all(map, account_ids, data) ==
  IF account_ids = <<>> \/ data = <<>> THEN map
  ELSE insert_all(insert(map, account_ids[1], data[1]), Tail(account_ids), Tail(data))

\* save_account_addresses storing the first pair only
save_account_addresses_first_only(store_addresses, account_ids, data) ==
  [result |-> Ok(<<>>),
   addresses |-> IF account_ids = <<>> \/ data = <<>> THEN store_addresses
                 ELSE insert(store_addresses, account_ids[1], data[1])]

save_account_addresses(store_addresses, account_ids, data) ==
  [result |-> Ok(<<>>), addresses |-> insert_all(store_addresses, account_ids, data)]

\* load_account_addresses answering an absent id with the zero address
load_account_addresses_lenient(store_addresses, account_ids) ==
  Ok([i \in 1..Len(account_ids) |->
        IF account_ids[i] \in DOMAIN store_addresses
          THEN store_addresses[account_ids[i]]
          ELSE <<[j \in 1..20 |-> 0], None>>])

\* TestStore::load_account_addresses: Err(()) as soon as one id is absent
load_account_addresses(store_addresses, account_ids) ==
  IF \A i \in 1..Len(account_ids) : account_ids[i] \in DOMAIN store_addresses
    THEN Ok([i \in 1..Len(account_ids) |-> store_addresses[account_ids[i]]])
    ELSE Err(<<>>)

\* load_idempotent_data reporting a key without a record as an error
load_idempotent_data_missing_is_error(store_cache, hits, idempotency_key) ==
  IF is_some(idempotency_key) /\ unwrap(idempotency_key) \in DOMAIN store_cache
    THEN [result |-> Ok(Some(store_cache[unwrap(idempotency_key)])), cache_hits |-> hits + 1]
    ELSE [result |-> IF is_some(idempotency_key) THEN Err(<<>>) ELSE Ok(None),
          cache_hits |-> hits]

\* TestStore::load_idempotent_data: the record under the key, counting the
\* loads that find one
load_idempotent_data(store_cache, hits, idempotency_key) ==
  IF is_some(idempotency_key) /\ unwrap(idempotency_key) \in DOMAIN store_cache
    THEN [result |-> Ok(Some(store_cache[unwrap(idempotency_key)])), cache_hits |-> hits + 1]
    ELSE [result |-> Ok(None), cache_hits |-> hits]

\* String::from_utf8_lossy over a body written as a sequence of chunks: a
\* chunk of text is valid UTF-8 and stays; the bytes 0xFE and 0xFF occur in
\* no UTF-8 sequence, and each of them becomes the replacement character
from_utf8_lossy(data) ==
  [i \in 1..Len(data) |-> IF data[i] \in {"0xFE", "0xFF"} THEN "U+FFFD" ELSE data[i]]

\* save_idempotent_data filing a request without a key under the empty key
save_idempotent_data_keyless(store_cache, idempotency_key, input_hash, status_code, data) ==
  insert(store_cache, IF is_some(idempotency_key) THEN unwrap(idempotency_key) ELSE "",
         [status |-> status_code, body |-> from_utf8_lossy(data), input_hash |-> input_hash])

\* save_idempotent_data as a compare-and-set: a key that holds a record
\* keeps it
save_idempotent_data_if_absent(store_cache, idempotency_key, input_hash, status_code, data) ==
  IF is_some(idempotency_key) /\ unwrap(idempotency_key) \notin DOMAIN store_cache
    THEN insert(store_cache, unwrap(idempotency_key),
                [status |-> status_code, body |-> from_utf8_lossy(data), input_hash |-> input_hash])
    ELSE store_cache

\* TestStore::save_idempotent_data: insert under the key, the body as a
\* String, nothing without a key
save_idempotent_data(store_cache, idempotency_key, input_hash, status_code, data) ==
  IF is_some(idempotency_key)
    THEN insert(store_cache, unwrap(idempotency_key),
                [status |-> status_code, body |-> from_utf8_lossy(data), input_hash |-> input_hash])
    ELSE store_cache

(* ------------------------------ helpers ------------------------------- *)

\* hex::decode: one byte for every two hexadecimal digits
HexValue(c) == CHOOSE d \in 0..15 : HexDigits[d + 1] = c

hex_decode(s) ==
  [i \in 1..(Len(s) \div 2) |-> 16 * HexValue(s[2 * i - 1]) + HexValue(s[2 * i])]

\* the n low-order bytes of v, most significant first
RECURSIVE be_bytes(_, _)
be_bytes(v, n) ==
  IF n = 0 THEN <<>> ELSE Append(be_bytes(v \div 256, n - 1), v % 256)

\* ethabi::encode of Token::Address: the 20 bytes after 12 zero bytes
encode_address(a) == [i \in 1..12 |-> 0] \o a

\* ethabi::encode of Token::Uint: the 32 bytes of the U256, big-endian
encode_uint(v) == be_bytes(v, 32)

\* ERC-20 transfer call data with the recipient word left unpadded
transfer_data_unpadded(to, value) ==
  hex_decode(<<"a", "9", "0", "5", "9", "c", "b", "b">>) \o to \o encode_uint(value)

\* make_tx, ERC-20 branch: the function selector of transfer(address,uint256)
\* extended by the ABI encoding of [Address(to), Uint(value)]
transfer_data(to, value) ==
  hex_decode(<<"a", "9", "0", "5", "9", "c", "b", "b">>)
    \o encode_address(to) \o encode_uint(value)

\* make_tx with the gas limit of the ERC-20 branch in both branches
make_tx_gas_70000(to, value, nonce, token_address) ==
  IF is_some(token_address)
    THEN [to |-> Some(unwrap(token_address)), nonce |-> nonce,
          data |-> transfer_data(to, value),
          gas |-> 70000, gas_price |-> 20000, value |-> 0]
    ELSE [to |-> Some(to), nonce |-> nonce, data |-> <<>>,
          gas |-> 70000, gas_price |-> 20000, value |-> value]

\* make_tx sending the ERC-20 call to the recipient instead of the token contract
make_tx_to_recipient(to, value, nonce, token_address) ==
  IF is_some(token_address)
    THEN [to |-> Some(to), nonce |-> nonce,
          data |-> transfer_data(to, value),
          gas |-> 70000, gas_price |-> 20000, value |-> 0]
    ELSE [to |-> Some(to), nonce |-> nonce, data |-> <<>>,
          gas |-> 21000, gas_price |-> 20000, value |-> value]

\* make_tx numbering the transaction one past the nonce it is given
make_tx_next_nonce(to, value, nonce, token_address) ==
  IF is_some(token_address)
    THEN [to |-> Some(unwrap(token_address)), nonce |-> nonce + 1,
          data |-> transfer_data(to, value),
          gas |-> 70000, gas_price |-> 20000, value |-> 0]
    ELSE [to |-> Some(to), nonce |-> nonce + 1, data |-> <<>>,
          gas |-> 21000, gas_price |-> 20000, value |-> value]

\* make_tx: ERC-20 transfer when a token address is given, native otherwise
make_tx(to, value, nonce, token_address) ==
  IF is_some(token_address)
    THEN [to |-> Some(unwrap(token_address)), nonce |-> nonce,
          data |-> transfer_data(to, value),
          gas |-> 70000, gas_price |-> 20000, value |-> 0]
    ELSE [to |-> Some(to), nonce |-> nonce, data |-> <<>>,
          gas |-> 21000, gas_price |-> 20000, value |-> value]

\* EthereumLedgerTxSigner::sign: the transaction bound to a chain id
sign(tx, chain_id) == [raw |-> tx, chain_id |-> chain_id]

(* ------------------------------- engine ------------------------------- *)

\* parse_body reading the token address from the first 20 bytes again
parse_body_same_slice(body) ==
  IF Len(body) = 20 THEN Some(<<body, None>>)
  ELSE IF Len(body) = 40 THEN Some(<<SubSeq(body, 1, 20), Some(SubSeq(body, 1, 20))>>)
  ELSE None

\* create_account, the match on body.len(): the (address, token address)
\* pair of a 20 or 40 byte body, None for any other length
parse_body(body) ==
  IF Len(body) = 20 THEN Some(<<body, None>>)
  ELSE IF Len(body) = 40 THEN Some(<<SubSeq(body, 1, 20), Some(SubSeq(body, 21, 40))>>)
  ELSE None

\* load_account answering for an account without an address record
load_account_unchecked(store_addresses, account_id) ==
  IF ~is_some(from_str(account_id))
    THEN Err(<<"Unable to parse account">>)
    ELSE LET id == unwrap(from_str(account_id))
             loaded == load_account_addresses(store_addresses, <<id>>)
         IN  IF loaded.ok
               THEN Ok(<<id, loaded.val[1]>>)
               ELSE Ok(<<id, <<[j \in 1..20 |-> 0], None>>>>)

\* load_account: Ok((id, addresses)) or Err(message)
load_account(store_addresses, account_id) ==
  IF ~is_some(from_str(account_id))
    THEN Err(<<"Unable to parse account">>)
    ELSE LET id == unwrap(from_str(account_id))
             loaded == load_account_addresses(store_addresses, <<id>>)
         IN  IF loaded.ok
               THEN Ok(<<id, loaded.val[1]>>)
               ELSE Err(<<"Error getting account: ">> \o to_string(id))

\* check_idempotency without the replay of a stored success
check_idempotency_no_replay(loaded, input_hash) ==
  IF ~loaded.ok
    THEN Err(<<500, <<"Couldn't connect to store ", "()">>>>)
    ELSE IF is_some(loaded.val)
      THEN LET d == unwrap(loaded.val)
           IN  IF d.input_hash # input_hash
                 THEN Err(<<409, <<"Provided idempotency key is tied to other input">>>>)
                 ELSE IF is_success(d.status)
                   THEN Ok(None)
                   ELSE Err(<<d.status, d.body>>)
      ELSE Ok(None)

\* check_idempotency without the comparison of the input hashes
check_idempotency_no_conflict(loaded, input_hash) ==
  IF ~loaded.ok
    THEN Err(<<500, <<"Couldn't connect to store ", "()">>>>)
    ELSE IF is_some(loaded.val)
      THEN LET d == unwrap(loaded.val)
           IN  IF is_success(d.status)
                 THEN Ok(Some(<<d.status, d.body>>))
                 ELSE Err(<<d.status, d.body>>)
      ELSE Ok(None)

\* check_idempotency running the request again after a stored failure
check_idempotency_retry_failed(loaded, input_hash) ==
  IF ~loaded.ok
    THEN Err(<<500, <<"Couldn't connect to store ", "()">>>>)
    ELSE IF is_some(loaded.val)
      THEN LET d == unwrap(loaded.val)
           IN  IF d.input_hash # input_hash
                 THEN Err(<<409, <<"Provided idempotency key is tied to other input">>>>)
                 ELSE IF is_success(d.status)
                   THEN Ok(Some(<<d.status, d.body>>))
                   ELSE Ok(None)
      ELSE Ok(None)

\* check_idempotency running the request when the store cannot be read
check_idempotency_ignore_store_error(loaded, input_hash) ==
  IF ~loaded.ok
    THEN Ok(None)
    ELSE IF is_some(loaded.val)
      THEN LET d == unwrap(loaded.val)
           IN  IF d.input_hash # input_hash
                 THEN Err(<<409, <<"Provided idempotency key is tied to other input">>>>)
                 ELSE IF is_success(d.status)
                   THEN Ok(Some(<<d.status, d.body>>))
                   ELSE Err(<<d.status, d.body>>)
      ELSE Ok(None)

\* check_idempotency running the request when the key is tied to other input
check_idempotency_work_on_conflict(loaded, input_hash) ==
  IF ~loaded.ok
    THEN Err(<<500, <<"Couldn't connect to store ", "()">>>>)
    ELSE IF is_some(loaded.val)
      THEN LET d == unwrap(loaded.val)
           IN  IF d.input_hash # input_hash
                 THEN Ok(None)
                 ELSE IF is_success(d.status)
                   THEN Ok(Some(<<d.status, d.body>>))
                   ELSE Err(<<d.status, d.body>>)
      ELSE Ok(None)

\* check_idempotency, from the result of load_idempotent_data:
\* Ok(None) to run the request, Ok(Some((status, body))) to replay a stored
\* success, Err((status, body)) for a conflict, a stored failure or a store
\* error
check_idempotency(loaded, input_hash) ==
  IF ~loaded.ok
    THEN Err(<<500, <<"Couldn't connect to store ", "()">>>>)
    ELSE IF is_some(loaded.val)
      THEN LET d == unwrap(loaded.val)
           IN  IF d.input_hash # input_hash
                 THEN Err(<<409, <<"Provided idempotency key is tied to other input">>>>)
                 ELSE IF is_success(d.status)
                   THEN Ok(Some(<<d.status, d.body>>))
                   ELSE Err(<<d.status, d.body>>)
      ELSE Ok(None)

\* the chain id settle_to hands to the signer
SettleChainId == 1

(* ------------------------------- state -------------------------------- *)

VARIABLES
  addresses,    \* TestStore.addresses: account id -> (address, Option<token address>)
  cache,        \* TestStore.cache: idempotency key -> (status, body, input hash)
  cache_hits,   \* TestStore.cache_hits
  tx_count,     \* the node's transaction count of the engine's address
  reqs,         \* the request tasks, one per slot
  nreq,         \* requests received so far
  history,      \* the outcomes handed back so far to requests that carried a key
  previous,     \* the account created by the request answered last, if it created one
  settled,      \* the settle_to calls that returned Ok, in order: the nonce each
                \* used and, for a request without a key, its input
  chain_id,     \* EthereumLedgerSettlementEngine.chain_id, set by new()
  unit,         \* a library function or store operation called on its own: its
                \* arguments and, once it has run, its result
  store_defers, \* whether the store's save_idempotent_data future writes when it
                \* is polled (TRUE) or already at the call, as TestStore's (FALSE)
  spawned       \* the save futures handed to spawn and not yet polled

vars == <<addresses, cache, cache_hits, tx_count, reqs, nreq, history, previous, settled,
          chain_id, unit, store_defers, spawned>>

IdleReq ==
  [pc |-> "idle", op |-> "none", account_id |-> <<>>, body |-> <<>>, amount |-> 0,
   idempotency_key |-> None, input_hash |-> <<>>, worked |-> FALSE, response |-> None,
   to |-> None, nonce |-> 0, store_writes |-> 0, nonce_reads |-> 0, sent |-> <<>>,
   posts |-> <<>>, saved |-> <<>>, found |-> None, chain_error |-> FALSE,
   store_before |-> <<>>, prior |-> {}, receipt |-> None, lookup_failed |-> FALSE,
   loads |-> 0]

NoRequest == None

\* the chain id test_engine and test_api construct the engine with
TestChainId == 1

\* no function is being called on its own
NoUnit == [pc |-> "none"]

\* TestStore::new / test_store: no address records, or BOB's record with or
\* without his token address
InitialAddresses ==
  { <<>>,
    [id \in {0} |-> <<BOB_ADDR, None>>],
    [id \in {0} |-> <<BOB_ADDR, Some(TOKEN_ADDR)>>] }

Init ==
  /\ addresses \in InitialAddresses
  /\ cache = <<>>
  /\ cache_hits = 0
  /\ tx_count = InitialCount
  /\ reqs = [r \in Slots |-> IdleReq]
  /\ nreq = 0
  /\ history = {}
  /\ previous = NoRequest
  /\ settled = <<>>
  /\ chain_id = TestChainId
  /\ unit = NoUnit
  /\ store_defers = FALSE
  /\ spawned = <<>>

\* the values of the chain_id parameter the engine is constructed with
ChainIds == {1, 4}

\* EthereumLedgerSettlementEngine::new with any of these chain ids
InitAnyChain ==
  /\ addresses \in InitialAddresses
  /\ cache = <<>>
  /\ cache_hits = 0
  /\ tx_count = InitialCount
  /\ reqs = [r \in Slots |-> IdleReq]
  /\ nreq = 0
  /\ history = {}
  /\ previous = NoRequest
  /\ settled = <<>>
  /\ chain_id \in ChainIds
  /\ unit = NoUnit
  /\ store_defers = FALSE
  /\ spawned = <<>>

\* the outcomes handed back so far to requests with this key and this input
PriorResponses(op, account_id, body, amount, idempotency_key) ==
  { h \in history : /\ Some(h.key) = idempotency_key
                    /\ h.op = op
                    /\ h.account_id = account_id
                    /\ h.body = body
                    /\ h.amount = amount }

\* a new request takes the first free slot
FreeSlot(r) ==
  /\ reqs[r].pc = "idle"
  /\ \A s \in Slots : s < r => reqs[s].pc # "idle"
  /\ nreq < MaxRequests

\* requests arrive one after the other (block_on in the tests)
NoneInFlight == \A s \in Slots : reqs[s].pc = "idle"

Finish(req, response) == [req EXCEPT !.pc = "done", !.response = Some(response)]

(* ------------------------------ actions ------------------------------- *)

\* create_account up to the idempotency check: the body length match and the
\* input hash
StartCreateAccount(r, account_id, body, idempotency_key) ==
  /\ FreeSlot(r)
  /\ LET input_hash == get_hash_of(format_input(account_id, debug_vec(body)))
         req == [IdleReq EXCEPT !.op = "create_account", !.account_id = account_id,
                                !.body = body, !.idempotency_key = idempotency_key,
                                !.store_before = addresses,
                                !.prior = PriorResponses("create_account", account_id,
                                                         body, 0, idempotency_key)]
     IN  reqs' = [reqs EXCEPT ![r] =
           IF ~is_some(parse_body(body))
             THEN Finish(req, Response(FALSE, 502, <<"INVALID PAYLOAD LENGTH">>))
             ELSE [req EXCEPT !.pc = "check", !.input_hash = input_hash]]
  /\ nreq' = nreq + 1
  /\ UNCHANGED <<addresses, cache, cache_hits, tx_count, history, previous, settled, chain_id, unit, store_defers, spawned>>

\* send_money up to the idempotency check: the input hash
StartSendMoney(r, account_id, amount, idempotency_key) ==
  /\ FreeSlot(r)
  /\ LET input_hash == get_hash_of(format_input(account_id, debug_settlement_data(amount)))
     IN  reqs' = [reqs EXCEPT ![r] =
           [IdleReq EXCEPT !.op = "send_money", !.account_id = account_id,
                           !.amount = amount, !.idempotency_key = idempotency_key,
                           !.pc = "check", !.input_hash = input_hash,
                           !.store_before = addresses,
                           !.prior = PriorResponses("send_money", account_id, <<>>,
                                                    amount, idempotency_key)]]
  /\ nreq' = nreq + 1
  /\ UNCHANGED <<addresses, cache, cache_hits, tx_count, history, previous, settled, chain_id, unit, store_defers, spawned>>

\* receive_message and get_account go straight to load_account
StartLoadOnly(r, op, account_id, body, idempotency_key) ==
  /\ FreeSlot(r)
  /\ reqs' = [reqs EXCEPT ![r] =
       [IdleReq EXCEPT !.op = op, !.account_id = account_id, !.body = body,
                       !.idempotency_key = idempotency_key, !.pc = "load",
                       !.store_before = addresses]]
  /\ nreq' = nreq + 1
  /\ UNCHANGED <<addresses, cache, cache_hits, tx_count, history, previous, settled, chain_id, unit, store_defers, spawned>>

\* HandleLookup that files the 409 of a conflicting request under its key
HandleLookup_recording_conflict(r, loaded) ==
  /\ LET req == reqs[r]
         ret == check_idempotency(loaded.result, req.input_hash)
         seen == [req EXCEPT !.found = IF loaded.result.ok THEN loaded.result.val ELSE None,
                             !.lookup_failed = ~loaded.result.ok,
                             !.loads = @ + 1]
     IN  /\ cache_hits' = loaded.cache_hits
         /\ cache' = IF ~ret.ok /\ ret.val[1] = 409
                       THEN save_idempotent_data(cache, req.idempotency_key, req.input_hash,
                                                 409, ret.val[2])
                       ELSE cache
         /\ reqs' = [reqs EXCEPT ![r] =
              IF ~ret.ok
                THEN Finish(seen, Response(FALSE, ret.val[1], ret.val[2]))
                ELSE IF is_some(ret.val)
                  THEN Finish(seen, Response(TRUE, unwrap(ret.val)[1], unwrap(ret.val)[2]))
                  ELSE [seen EXCEPT !.worked = TRUE,
                                    !.pc = IF req.op = "create_account" THEN "work" ELSE "load"]]
  /\ UNCHANGED <<addresses, tx_count, nreq, history, previous, settled, chain_id, unit, store_defers, spawned>>

\* check_idempotency on what the store's load_idempotent_data answered, and
\* the handler's use of its result
HandleLookup(r, loaded) ==
  /\ LET req == reqs[r]
         ret == check_idempotency(loaded.result, req.input_hash)
         seen == [req EXCEPT !.found = IF loaded.result.ok THEN loaded.result.val ELSE None,
                             !.lookup_failed = ~loaded.result.ok,
                             !.loads = @ + 1]
     IN  /\ cache_hits' = loaded.cache_hits
         /\ reqs' = [reqs EXCEPT ![r] =
              IF ~ret.ok
                THEN Finish(seen, Response(FALSE, ret.val[1], ret.val[2]))
                ELSE IF is_some(ret.val)
                  THEN Finish(seen, Response(TRUE, unwrap(ret.val)[1], unwrap(ret.val)[2]))
                  ELSE [seen EXCEPT !.worked = TRUE,
                                    !.pc = IF req.op = "create_account" THEN "work" ELSE "load"]]
  /\ UNCHANGED <<addresses, cache, tx_count, nreq, history, previous, settled, chain_id, unit, store_defers, spawned>>

\* the idempotency check against TestStore, whose load always answers
CheckIdempotency(r) ==
  /\ reqs[r].pc = "check"
  /\ HandleLookup(r, load_idempotent_data(cache, cache_hits, reqs[r].idempotency_key))

\* the idempotency check against a store whose load_idempotent_data fails
CheckIdempotencyStoreDown(r) ==
  /\ reqs[r].pc = "check"
  /\ HandleLookup(r, [result |-> Err(<<>>), cache_hits |-> cache_hits])

\* the request's call of store.save_idempotent_data, noted in the request
Saved(req, status_code, data) ==
  [req EXCEPT !.saved = Append(@, [idempotency_key |-> req.idempotency_key,
                                    input_hash |-> req.input_hash,
                                    status |-> status_code, body |-> data])]

\* the save awaited by the handler: written before the handler goes on
SpawnSave_awaited(idempotency_key, input_hash, status_code, data) ==
  /\ cache' = save_idempotent_data(cache, idempotency_key, input_hash, status_code, data)
  /\ UNCHANGED spawned

\* spawn(store.save_idempotent_data(..)): TestStore has written when the
\* call returns and the future spawned is already complete; a store that
\* defers writes when the spawned future is polled. The handler waits for
\* neither.
SpawnSave(idempotency_key, input_hash, status_code, data) ==
  IF store_defers /\ is_some(idempotency_key)
    THEN /\ spawned' = Append(spawned, [idempotency_key |-> idempotency_key,
                                        input_hash |-> input_hash,
                                        status |-> status_code, body |-> data])
         /\ UNCHANGED cache
    ELSE /\ cache' = save_idempotent_data(cache, idempotency_key, input_hash,
                                          status_code, data)
         /\ UNCHANGED spawned

\* create_account after a lookup that found nothing: parse the account id and
\* write the address record
CreateAccountWork(r) ==
  /\ reqs[r].pc = "work"
  /\ LET req == reqs[r]
         parsed == from_str(req.account_id)
         data == unwrap(parse_body(req.body))
     IN  IF ~is_some(parsed)
           THEN LET error_msg == <<"Unable to parse account">>
                IN  /\ SpawnSave(req.idempotency_key,
                                                     req.input_hash, 400, error_msg)
                    /\ reqs' = [reqs EXCEPT ![r] =
                         Finish(Saved(req, 400, error_msg), Response(FALSE, 400, error_msg))]
                    /\ UNCHANGED addresses
           ELSE LET account_id == unwrap(parsed)
                    stored == save_account_addresses(addresses, <<account_id>>, <<data>>)
                    wrote == [req EXCEPT !.store_writes = @ + 1]
                    error_msg == <<"Error creating account: ">> \o to_string(account_id)
                                   \o <<", ">> \o debug_vec(req.body)
                IN  /\ addresses' = stored.addresses
                    /\ IF stored.result.ok
                         THEN /\ reqs' = [reqs EXCEPT ![r] = [wrote EXCEPT !.pc = "created"]]
                              /\ UNCHANGED <<cache, spawned>>
                         ELSE /\ SpawnSave(req.idempotency_key,
                                                               req.input_hash, 400, error_msg)
                              /\ reqs' = [reqs EXCEPT ![r] =
                                   Finish(Saved(wrote, 400, error_msg),
                                          Response(FALSE, 400, error_msg))]
  /\ UNCHANGED <<cache_hits, tx_count, nreq, history, previous, settled, chain_id, unit, store_defers>>

\* create_account, last step: record 201 and answer
CreateAccountRecord(r) ==
  /\ reqs[r].pc = "created"
  /\ SpawnSave(reqs[r].idempotency_key, reqs[r].input_hash,
                                   201, <<"CREATED">>)
  /\ reqs' = [reqs EXCEPT ![r] =
       Finish(Saved(reqs[r], 201, <<"CREATED">>), Response(TRUE, 201, <<"CREATED">>))]
  /\ UNCHANGED <<addresses, cache_hits, tx_count, nreq, history, previous, settled, chain_id, unit, store_defers>>

\* load_account and what send_money, receive_message and get_account do
\* with its result
LoadAccount(r) ==
  /\ reqs[r].pc = "load"
  /\ LET req == reqs[r]
         loaded == load_account(addresses, req.account_id)
         error_msg == <<"Error loading account ">> \o debug_str(loaded.val)
     IN  IF req.op = "send_money"
           THEN IF loaded.ok
                  THEN /\ reqs' = [reqs EXCEPT ![r] =
                            [req EXCEPT !.pc = "nonce", !.to = Some(loaded.val[2])]]
                       /\ UNCHANGED <<cache, spawned>>
                  ELSE /\ SpawnSave(req.idempotency_key,
                                                        req.input_hash, 400, error_msg)
                       /\ reqs' = [reqs EXCEPT ![r] =
                            Finish(Saved(req, 400, error_msg), Response(FALSE, 400, error_msg))]
           ELSE /\ reqs' = [reqs EXCEPT ![r] =
                     IF ~loaded.ok
                       THEN Finish(req, Response(FALSE, 400, error_msg))
                       ELSE IF req.op = "get_account"
                         THEN Finish(req, Response(TRUE, 200,
                                json_addresses(loaded.val[2][1], loaded.val[2][2])))
                         ELSE Finish(req, Response(TRUE, 200, <<"OK">>))]
                /\ UNCHANGED <<cache, spawned>>
  /\ UNCHANGED <<addresses, cache_hits, tx_count, nreq, history, previous, settled, chain_id, unit, store_defers>>

\* settle_to, transaction_count(..).wait().unwrap(): the nonce, or a panic
\* when the node does not answer
FetchNonce(r, node_ok) ==
  /\ reqs[r].pc = "nonce"
  /\ reqs' = [reqs EXCEPT ![r] =
       IF node_ok
         THEN [@ EXCEPT !.pc = "broadcast", !.nonce = tx_count, !.nonce_reads = @ + 1]
         ELSE [@ EXCEPT !.pc = "panicked", !.nonce_reads = @ + 1, !.chain_error = TRUE]]
  /\ UNCHANGED <<addresses, cache, cache_hits, tx_count, nreq, history, previous, settled, chain_id, unit, store_defers, spawned>>

\* what the node does with a raw transaction: "confirmed" (mined with the
\* confirmations asked for, receipt status 1), "reverted" (mined with the
\* confirmations asked for, receipt status 0), "rejected" (not accepted),
\* "lost" (accepted, then the wait for the receipt fails)
NodeOutcomes == {"confirmed", "reverted", "rejected", "lost"}

\* the outcomes in which send_raw_transaction_with_confirmation resolves
\* with a receipt
Mined == {"confirmed", "reverted"}

\* settle_to, make_tx, sign and
\* send_raw_transaction_with_confirmation(..).wait().unwrap()
Broadcast(r, outcome) ==
  /\ reqs[r].pc = "broadcast"
  /\ outcome \in Mined => reqs[r].nonce = tx_count
  /\ LET req == reqs[r]
         to == unwrap(req.to)
         tx == make_tx(to[1], req.amount, req.nonce, to[2])
         signed_tx == sign(tx, SettleChainId)
     IN  reqs' = [reqs EXCEPT ![r] =
           [req EXCEPT !.pc = IF outcome \in Mined THEN "settled" ELSE "panicked",
                       !.chain_error = (outcome \notin Mined),
                       !.receipt = IF outcome \in Mined
                                     THEN Some(IF outcome = "confirmed" THEN 1 ELSE 0)
                                     ELSE None,
                       !.sent = IF outcome = "rejected" THEN @ ELSE Append(@, signed_tx)]]
  /\ tx_count' = IF outcome \in Mined THEN tx_count + 1 ELSE tx_count
  /\ settled' = IF outcome \in Mined
                  THEN Append(settled,
                         [nonce |-> reqs[r].nonce,
                          input |-> IF is_some(reqs[r].idempotency_key) THEN None
                                    ELSE Some(<<reqs[r].account_id, reqs[r].amount>>)])
                  ELSE settled
  /\ UNCHANGED <<addresses, cache, cache_hits, nreq, history, previous, chain_id, unit, store_defers, spawned>>

\* send_money, last step, after settle_to returned Ok: record 200 and answer
SendMoneyRecord(r) ==
  /\ reqs[r].pc = "settled"
  /\ SpawnSave(reqs[r].idempotency_key, reqs[r].input_hash,
                                   200, <<"OK">>)
  /\ reqs' = [reqs EXCEPT ![r] =
       Finish(Saved(reqs[r], 200, <<"OK">>), Response(TRUE, 200, <<"OK">>))]
  /\ UNCHANGED <<addresses, cache_hits, tx_count, nreq, history, previous, settled, chain_id, unit, store_defers>>

\* the caller receives the response and the task ends
Respond(r) ==
  /\ reqs[r].pc = "done"
  /\ LET req == reqs[r]
         resp == unwrap(req.response)
         replayed == is_some(req.found) /\ unwrap(req.found).input_hash = req.input_hash
     IN  /\ history' =
              IF /\ req.op \in {"create_account", "send_money"}
                 /\ is_some(req.idempotency_key)
                 /\ (req.worked \/ replayed)
                THEN history \cup {[key |-> unwrap(req.idempotency_key), op |-> req.op,
                                    account_id |-> req.account_id, body |-> req.body,
                                    amount |-> req.amount, input_hash |-> req.input_hash,
                                    ok |-> resp.ok,
                                    status |-> resp.status, out |-> resp.body]}
                ELSE history
         /\ previous' =
              IF req.op = "create_account" /\ req.worked /\ resp.status = 201
                THEN Some([account_id |-> req.account_id, body |-> req.body])
                ELSE NoRequest
  /\ reqs' = [reqs EXCEPT ![r] = IdleReq]
  /\ UNCHANGED <<addresses, cache, cache_hits, tx_count, nreq, settled, chain_id, unit, store_defers, spawned>>

\* a task that panicked is dropped: its caller never gets a response
Abort(r) ==
  /\ reqs[r].pc = "panicked"
  /\ reqs' = [reqs EXCEPT ![r] = IdleReq]
  /\ previous' = NoRequest
  /\ UNCHANGED <<addresses, cache, cache_hits, tx_count, nreq, history, settled, chain_id, unit, store_defers, spawned>>

\* the executor polls one of the spawned save futures: the write happens
RunSpawnedSave(i) ==
  /\ i \in 1..Len(spawned)
  /\ cache' = save_idempotent_data(cache, spawned[i].idempotency_key, spawned[i].input_hash,
                                   spawned[i].status, spawned[i].body)
  /\ spawned' = SubSeq(spawned, 1, i - 1) \o SubSeq(spawned, i + 1, Len(spawned))
  /\ UNCHANGED <<addresses, cache_hits, tx_count, reqs, nreq, history, previous, settled,
                 chain_id, unit, store_defers>>

(* --------------------------- specifications --------------------------- *)

Step(r) ==
  \/ CheckIdempotency(r)
  \/ CreateAccountWork(r)
  \/ CreateAccountRecord(r)
  \/ LoadAccount(r)
  \/ \E node_ok \in BOOLEAN : FetchNonce(r, node_ok)
  \/ \E outcome \in NodeOutcomes : Broadcast(r, outcome)
  \/ SendMoneyRecord(r)
  \/ Respond(r)
  \/ Abort(r)

Start(r) ==
  \/ \E account_id \in AccountIdStrings, body \in CreateBodies, k \in Keys :
       StartCreateAccount(r, account_id, body, k)
  \/ \E account_id \in AccountIdStrings, amount \in Amounts, k \in Keys :
       StartSendMoney(r, account_id, amount, k)
  \/ \E account_id \in AccountIdStrings, k \in Keys :
       StartLoadOnly(r, "receive_message", account_id, <<>>, k)
  \/ \E account_id \in AccountIdStrings :
       StartLoadOnly(r, "get_account", account_id, <<>>, None)

\* requests handled one after the other, each run to its end before the next
\* arrives
Next ==
  \/ \E r \in Slots : NoneInFlight /\ Start(r)
  \/ \E r \in Slots : Step(r)

Spec == Init /\ [][Next]_vars

\* the engine constructed with any chain id
SpecAnyChain == InitAnyChain /\ [][Next]_vars

\* the engine over a store whose save futures write when they are polled
InitDeferred ==
  /\ addresses \in InitialAddresses
  /\ cache = <<>>
  /\ cache_hits = 0
  /\ tx_count = InitialCount
  /\ reqs = [r \in Slots |-> IdleReq]
  /\ nreq = 0
  /\ history = {}
  /\ previous = NoRequest
  /\ settled = <<>>
  /\ chain_id = TestChainId
  /\ unit = NoUnit
  /\ store_defers = TRUE
  /\ spawned = <<>>

\* requests one after the other, the spawned saves running whenever the
\* executor gets to them
NextDeferred ==
  \/ \E r \in Slots : nreq < MaxOverlapping /\ NoneInFlight /\ Start(r)
  \/ \E r \in Slots : Step(r)
  \/ \E i \in 1..MaxOverlapping : RunSpawnedSave(i)

SpecDeferred == InitDeferred /\ [][NextDeferred]_vars

\* the same engine over an idempotency store whose reads may fail
NextFailingStore ==
  \/ Next
  \/ \E r \in Slots : CheckIdempotencyStoreDown(r)

SpecFailingStore == Init /\ [][NextFailingStore]_vars

\* requests served as the tasks of one runtime: a request may arrive while
\* others are in flight, and the steps of the requests in flight interleave
NextConc ==
  \/ \E r \in Slots : nreq < MaxOverlapping /\ Start(r)
  \/ \E r \in Slots : Step(r)

SpecConc == Init /\ [][NextConc]_vars

\* overlapping create_account and send_money requests for BOB's account
\* that all carry the one idempotency key
StartKeyed(r) ==
  \/ \E body \in CreateBodies, k \in Keys \ {None} :
       StartCreateAccount(r, <<"0">>, body, k)
  \/ \E amount \in Amounts, k \in Keys \ {None} :
       StartSendMoney(r, <<"0">>, amount, k)

NextSameKey ==
  \/ \E r \in Slots : nreq < MaxOverlapping /\ StartKeyed(r)
  \/ \E r \in Slots : Step(r)

SpecSameKey == Init /\ [][NextSameKey]_vars

(* ------------------------------ properties ---------------------------- *)

IdempotentOps == {"create_account", "send_money"}

Answer(req) == unwrap(req.response)

\* the request wrote no address record, read no nonce, broadcast nothing and
\* posted nothing to the connector
NoSideEffects(req) ==
  /\ req.store_writes = 0
  /\ req.nonce_reads = 0
  /\ req.sent = <<>>
  /\ req.posts = <<>>

\* the text is a non-empty string of decimal digits
Numeric(s) == s # <<>> /\ \A i \in 1..Len(s) : IsDigit(s[i])

\* the record the request's lookup found is tied to the request's own input
FoundSame(req) == is_some(req.found) /\ unwrap(req.found).input_hash = req.input_hash

\* the record the request's lookup found is tied to another input
FoundOther(req) == is_some(req.found) /\ unwrap(req.found).input_hash # req.input_hash

\* C1: Idempotent replay. Once a create_account or send_money request with
\* key k has been answered with the outcome of its WORK step, every later
\* request with key k and the same account id and body is answered with
\* exactly that status and body, never enters WORK, and writes no address
\* record, reads no nonce, broadcasts nothing and posts nothing.
C1_IdempotentReplay ==
  \A r \in Slots :
    LET req == reqs[r]
    IN  (req.op \in IdempotentOps /\ is_some(req.idempotency_key) /\ req.prior # {}) =>
          /\ ~req.worked
          /\ NoSideEffects(req)
          /\ req.saved = <<>>
          /\ addresses = req.store_before
          /\ req.pc \in {"check", "done"}
          /\ req.pc = "done" =>
               \A h \in req.prior :
                 Answer(req).status = h.status /\ Answer(req).body = h.out

\* a send_money answered 200 earlier is answered 200 again from the record
C1_Witness ==
  \E r \in Slots :
    /\ reqs[r].pc = "done"
    /\ reqs[r].op = "send_money"
    /\ reqs[r].prior # {}
    /\ Answer(reqs[r]).status = 200
    /\ cache_hits > 0

C3_ChainFailureAnswered502 ==
  \A r \in Slots :
    LET req == reqs[r]
    IN  req.chain_error =>
          /\ req.pc = "done"
          /\ Answer(req) = Response(FALSE, 502, <<"Error connecting to the blockchain.">>)
          /\ is_some(req.idempotency_key) =>
               /\ unwrap(req.idempotency_key) \in DOMAIN cache
               /\ cache[unwrap(req.idempotency_key)] =
                    [status |-> 502, body |-> <<"Error connecting to the blockchain.">>,
                     input_hash |-> req.input_hash]

\* the native or ERC-20 transfer of amount to the addresses record
TransferFor(record, amount, tx) ==
  IF is_some(record[2])
    THEN /\ tx.to = record[2]
         /\ tx.value = 0
         /\ tx.data = transfer_data(record[1], amount)
    ELSE /\ tx.to = Some(record[1])
         /\ tx.value = amount
         /\ tx.data = <<>>

\* C4: a send_money that ran WORK and is answered 200 "OK" has broadcast
\* exactly one transaction, the transfer of its amount built from the
\* address record of its account id: native to the peer address without a
\* token address, ERC-20 to the token contract with one.
C4_OneTransactionPerSettlement ==
  \A r \in Slots :
    LET req == reqs[r]
    IN  (req.pc = "done" /\ req.op = "send_money" /\ req.worked
           /\ Answer(req).status = 200) =>
          /\ Answer(req) = Response(TRUE, 200, <<"OK">>)
          /\ Numeric(req.account_id)
          /\ digits_value(req.account_id) \in DOMAIN req.store_before
          /\ Len(req.sent) = 1
          /\ req.nonce_reads = 1
          /\ TransferFor(req.store_before[digits_value(req.account_id)], req.amount,
                         req.sent[1].raw)

\* a send_money for an account with a token address has been answered 200
C4_Witness ==
  \E r \in Slots :
    /\ reqs[r].pc = "done"
    /\ reqs[r].op = "send_money"
    /\ reqs[r].worked
    /\ Answer(reqs[r]).status = 200
    /\ Len(reqs[r].sent) = 1
    /\ reqs[r].sent[1].raw.to = Some(TOKEN_ADDR)

\* C5 (as claimed): a send_money that ran WORK and is answered 200 has made
\* exactly one POST to accounts/{account_id}/settlement with the decimal
\* amount as its body.
C5_NotifiedOnce ==
  \A r \in Slots :
    LET req == reqs[r]
    IN  (req.pc = "done" /\ req.op = "send_money" /\ req.worked
           /\ Answer(req).status = 200) =>
          req.posts = << [path |-> <<"accounts", req.account_id, "settlement">>,
                          body |-> to_string(req.amount)] >>

\* the addresses a create_account body of 20 or 40 bytes stands for
ExpectedAddresses(body) ==
  IF Len(body) = 20 THEN <<body, None>>
  ELSE <<SubSeq(body, 1, 20), Some(SubSeq(body, 21, 40))>>

\* C6: a create_account with a numeric account id and a 20 or 40 byte body
\* that runs WORK (no record under its key) stores id -> (address, token
\* address) and is answered Ok 201 "CREATED"; the get_account for that id
\* that follows is answered Ok 200 with exactly those addresses.
C6_CreateThenGet ==
  \A r \in Slots :
    LET req == reqs[r]
    IN  /\ (req.pc = "done" /\ req.op = "create_account" /\ req.worked
              /\ Numeric(req.account_id)) =>
             /\ Answer(req) = Response(TRUE, 201, <<"CREATED">>)
             /\ digits_value(req.account_id) \in DOMAIN addresses
             /\ addresses[digits_value(req.account_id)] = ExpectedAddresses(req.body)
        /\ (req.pc = "done" /\ req.op = "get_account" /\ is_some(previous)
              /\ unwrap(previous).account_id = req.account_id) =>
             Answer(req) =
               Response(TRUE, 200,
                        json_addresses(ExpectedAddresses(unwrap(previous).body)[1],
                                       ExpectedAddresses(unwrap(previous).body)[2]))

\* a get_account right after the create_account of its id, with a token
\* address, has been answered
C6_Witness ==
  \E r \in Slots :
    /\ reqs[r].pc = "done"
    /\ reqs[r].op = "get_account"
    /\ is_some(previous)
    /\ unwrap(previous).account_id = reqs[r].account_id
    /\ Len(unwrap(previous).body) = 40
    /\ Answer(reqs[r]).status = 200

\* the record stored under the request's key is the request's own answer
RecordedOwnAnswer(req) ==
  is_some(req.idempotency_key) =>
    /\ unwrap(req.idempotency_key) \in DOMAIN cache
    /\ cache[unwrap(req.idempotency_key)] =
         [status |-> Answer(req).status, body |-> Answer(req).body,
          input_hash |-> req.input_hash]

\* C7: a send_money that runs WORK for an account id that is not numeric or
\* has no address record is answered Err 400 with a body that begins "Error
\* loading account", reads no nonce, broadcasts nothing, and the 400 is
\* stored under its key.
C7_SendMoneyUnknownAccount ==
  \A r \in Slots :
    LET req == reqs[r]
    IN  (req.op = "send_money" /\ req.worked /\ req.pc # "load"
           /\ (~Numeric(req.account_id)
                 \/ digits_value(req.account_id) \notin DOMAIN req.store_before)) =>
          /\ req.pc = "done"
          /\ ~Answer(req).ok
          /\ Answer(req).status = 400
          /\ Answer(req).body[1] = "Error loading account "
          /\ req.nonce_reads = 0
          /\ req.sent = <<>>
          /\ req.saved = << [idempotency_key |-> req.idempotency_key,
                             input_hash |-> req.input_hash, status |-> 400,
                             body |-> Answer(req).body] >>
          /\ RecordedOwnAnswer(req)

\* a keyed send_money for a numeric id without address record was answered 400
C7_Witness ==
  \E r \in Slots :
    /\ reqs[r].pc = "done"
    /\ reqs[r].op = "send_money"
    /\ reqs[r].worked
    /\ is_some(reqs[r].idempotency_key)
    /\ Numeric(reqs[r].account_id)
    /\ digits_value(reqs[r].account_id) \notin DOMAIN addresses
    /\ Answer(reqs[r]).status = 400

\* C8 (as claimed): a create_account whose body is not an (address, optional
\* token address) pair, and whose key is tied to no record, is answered 400
\* "Unable to parse message body".
C8_UnparsableBody400 ==
  \A r \in Slots :
    LET req == reqs[r]
    IN  (req.pc = "done" /\ req.op = "create_account" /\ Len(req.body) \notin {20, 40}
           /\ (is_some(req.idempotency_key) =>
                 unwrap(req.idempotency_key) \notin DOMAIN cache)) =>
          /\ Answer(req).status = 400
          /\ Answer(req).body = <<"Unable to parse message body">>

\* C9: a create_account that runs WORK for an account id that is not numeric
\* is answered Err 400 "Unable to parse account", leaves the address store
\* as it was, and (400, that body, input hash) is stored under its key.
C9_CreateAccountBadId ==
  \A r \in Slots :
    LET req == reqs[r]
    IN  (req.op = "create_account" /\ req.worked /\ req.pc # "work"
           /\ ~Numeric(req.account_id)) =>
          /\ req.pc = "done"
          /\ Answer(req) = Response(FALSE, 400, <<"Unable to parse account">>)
          /\ req.store_writes = 0
          /\ addresses = req.store_before
          /\ req.saved = << [idempotency_key |-> req.idempotency_key,
                             input_hash |-> req.input_hash, status |-> 400,
                             body |-> <<"Unable to parse account">>] >>
          /\ RecordedOwnAnswer(req)

\* a keyed create_account for the id "x" was answered 400
C9_Witness ==
  \E r \in Slots :
    /\ reqs[r].pc = "done"
    /\ reqs[r].op = "create_account"
    /\ reqs[r].worked
    /\ reqs[r].account_id = <<"x">>
    /\ is_some(reqs[r].idempotency_key)
    /\ Answer(reqs[r]).status = 400

\* C10: Replay of a stored failure. A create_account or send_money request
\* whose lookup finds, under its key, a record with its own input hash and a
\* status that is no success is answered Err with the stored status and
\* body, and never enters WORK: no address record written, nothing
\* broadcast, nothing saved.
C10_StoredFailureReplayed ==
  \A r \in Slots :
    LET req == reqs[r]
    IN  (req.op \in IdempotentOps /\ FoundSame(req)
           /\ ~is_success(unwrap(req.found).status)) =>
          /\ req.pc = "done"
          /\ Answer(req) =
               Response(FALSE, unwrap(req.found).status, unwrap(req.found).body)
          /\ ~req.worked
          /\ NoSideEffects(req)
          /\ req.saved = <<>>
          /\ addresses = req.store_before
          /\ cache[unwrap(req.idempotency_key)] = unwrap(req.found)

\* a send_money answered 400 earlier is answered 400 again although the
\* account has been created since
C10_Witness ==
  \E r \in Slots :
    /\ reqs[r].pc = "done"
    /\ reqs[r].op = "send_money"
    /\ FoundSame(reqs[r])
    /\ Answer(reqs[r]).status = 400
    /\ Numeric(reqs[r].account_id)
    /\ digits_value(reqs[r].account_id) \in DOMAIN addresses

\* a create_account or send_money request without a key that has reached
\* the idempotency check
Keyless(req) ==
  /\ req.op \in IdempotentOps
  /\ req.pc # "idle"
  /\ ~is_some(req.idempotency_key)
  /\ req.input_hash # <<>>

C12_EveryOutcomeSaved ==
  \A r \in Slots :
    LET req == reqs[r]
    IN  (/\ req.pc = "done"
         /\ is_some(req.idempotency_key)
         /\ (req.worked \/ req.op = "receive_message")) =>
          /\ Len(req.saved) = 1
          /\ req.saved[1].idempotency_key = req.idempotency_key
          /\ req.saved[1].status = Answer(req).status
          /\ req.saved[1].body = Answer(req).body

\* C13: receive_message and the idempotency pattern. A receive_message
\* request whose key holds a record tied to another input than its own
\* account id and body is answered 409; one whose key holds a record tied to
\* its own input is answered with the stored status and body.
C13_ReceiveMessageIdempotent ==
  \A r \in Slots :
    LET req == reqs[r]
        own == get_hash_of(format_input(req.account_id, debug_vec(req.body)))
    IN  (/\ req.op = "receive_message"
         /\ req.pc = "done"
         /\ is_some(req.idempotency_key)
         /\ unwrap(req.idempotency_key) \in DOMAIN cache) =>
          LET d == cache[unwrap(req.idempotency_key)]
          IN  IF d.input_hash # own
                THEN Answer(req).status = 409
                ELSE Answer(req).status = d.status /\ Answer(req).body = d.body

\* C14: receive_message. A receive_message request is answered Ok 200 "OK"
\* when its account id is a decimal number and the address store holds a
\* record for it, and Err 400 in every other case; it writes no address
\* record, leaves the address store as it found it, reads no nonce and
\* broadcasts nothing.
C14_ReceiveMessage ==
  \A r \in Slots :
    LET req == reqs[r]
        known == /\ Numeric(req.account_id)
                 /\ digits_value(req.account_id) \in DOMAIN addresses
    IN  req.op = "receive_message" =>
          /\ NoSideEffects(req)
          /\ addresses = req.store_before
          /\ req.saved = <<>>
          /\ req.pc = "done" =>
               IF known
                 THEN Answer(req) = Response(TRUE, 200, <<"OK">>)
                 ELSE ~Answer(req).ok /\ Answer(req).status = 400

\* a receive_message for an account created by an earlier request is
\* answered 200
C14_Witness ==
  \E r \in Slots :
    /\ reqs[r].op = "receive_message"
    /\ reqs[r].pc = "done"
    /\ Answer(reqs[r]).status = 200
    /\ reqs[r].account_id = <<"4", "2">>
    /\ settled = <<>>

\* C15: Idempotency store read failure. A create_account or send_money
\* request whose load_idempotent_data fails is answered Err 500 "Couldn't
\* connect to store ()" straight from the check: it never enters WORK, so
\* it writes no address record, reads no nonce, broadcasts nothing and
\* issues no idempotency save, and the address store stays as it was.
C15_StoreReadFailure ==
  \A r \in Slots :
    LET req == reqs[r]
    IN  (req.op \in IdempotentOps /\ req.lookup_failed) =>
          /\ req.pc = "done"
          /\ Answer(req) = Response(FALSE, 500, <<"Couldn't connect to store ", "()">>)
          /\ ~req.worked
          /\ NoSideEffects(req)
          /\ req.saved = <<>>
          /\ addresses = req.store_before

\* a send_money for a stored account, with a key, is answered 500
C15_Witness ==
  \E r \in Slots :
    /\ reqs[r].op = "send_money"
    /\ reqs[r].lookup_failed
    /\ reqs[r].pc = "done"
    /\ is_some(reqs[r].idempotency_key)
    /\ Answer(reqs[r]).status = 500
    /\ Numeric(reqs[r].account_id)
    /\ digits_value(reqs[r].account_id) \in DOMAIN addresses

\* C16: Idempotency records are immutable. Once the idempotency store holds
\* a record under a key, no step of any request, also of requests that
\* overlap, removes it or changes its status, its body or its input hash.
C16_RecordsImmutable ==
  [][\A k \in DOMAIN cache : k \in DOMAIN cache' /\ cache'[k] = cache[k]]_vars

\* C17: Account records are never mutated. Once the address store holds a
\* record for an account id, no step of any request removes it or changes
\* the addresses stored in it.
C17_AccountRecordsNeverMutated ==
  [][\A id \in DOMAIN addresses :
       id \in DOMAIN addresses' /\ addresses'[id] = addresses[id]]_vars

\* the request is inside settle_to between the read of the nonce and the
\* broadcast
InNonceSection(req) == req.pc = "broadcast"

\* C18: Nonce critical section. The stretch of settle_to from the read of
\* the nonce to the broadcast is a critical section of the engine: no two
\* requests are inside it at once, so no two requests hold the same nonce
\* for a transaction yet to be broadcast.
C18_NonceCriticalSection ==
  \A r, s \in Slots :
    r # s => ~(InNonceSection(reqs[r]) /\ InNonceSection(reqs[s]))

\* C19: Nonce monotonicity. With requests served one after another, the
\* settle_to calls that return Ok use, in order, the nonces n0, n0 + 1, ..,
\* n0 being the node's count when the run starts; each call broadcasts one
\* transaction, numbered with the count it read from the node at its start,
\* and the count stands one higher when the call returns.
C19_NonceMonotonicity ==
  /\ \A i \in 1..Len(settled) : settled[i].nonce = InitialCount + i - 1
  /\ \A r \in Slots :
       LET req == reqs[r]
       IN  (req.op = "send_money" /\ is_some(req.receipt)) =>
             /\ req.nonce_reads = 1
             /\ Len(req.sent) = 1
             /\ req.sent[1].raw.nonce = req.nonce
             /\ req.nonce = InitialCount + Len(settled) - 1
             /\ tx_count = req.nonce + 1

\* the third settle_to call in a row has returned Ok
C19_Witness ==
  /\ Len(settled) = 3
  /\ \E r \in Slots :
       /\ reqs[r].op = "send_money"
       /\ reqs[r].pc = "done"
       /\ Answer(reqs[r]).status = 200
       /\ reqs[r].sent[1].raw.nonce = InitialCount + 2

\* C20: Confirmed before 200. A send_money request that ran WORK is
\* answered 200 "OK", and a 200 is saved for it, only when the transaction
\* it broadcast has a receipt, with the confirmations asked for, whose
\* status is 1.
C20_OkOnlyAfterSuccessReceipt ==
  \A r \in Slots :
    LET req == reqs[r]
    IN  (/\ req.op = "send_money"
         /\ req.worked
         /\ \/ (req.pc = "done" /\ Answer(req).status = 200)
            \/ \E i \in 1..Len(req.saved) : req.saved[i].status = 200) =>
          /\ Len(req.sent) = 1
          /\ req.receipt = Some(1)

\* C21: Reverted transaction. A send_money request whose transaction was
\* mined with a receipt of status 0 is answered Err 502 and never 200, and
\* no 200 is saved for it.
C21_RevertedAnswered502 ==
  \A r \in Slots :
    LET req == reqs[r]
    IN  (req.op = "send_money" /\ req.receipt = Some(0)) =>
          /\ \A i \in 1..Len(req.saved) : req.saved[i].status # 200
          /\ req.pc = "done" =>
               /\ ~Answer(req).ok
               /\ Answer(req).status = 502

\* C22: Configured chain id. Every transaction a request has handed to the
\* node was signed with the chain id the engine was constructed with.
C22_SignedWithConfiguredChainId ==
  \A r \in Slots :
    \A i \in 1..Len(reqs[r].sent) : reqs[r].sent[i].chain_id = chain_id

\* the record a save call of a request puts under the request's key
SavedRecord(call) ==
  [status |-> call.status, body |-> call.body, input_hash |-> call.input_hash]

\* C23: Same key, overlapping requests. A create_account or send_money
\* request that found its key absent at the lookup runs WORK whatever
\* overlapping requests with the same key do meanwhile, and its save puts
\* its own outcome under the key whether or not another request has saved
\* there since the lookup: after the step of a save the record under the
\* key is the one that save wrote, so the record left is the later save's.
C23_LaterSaveWins ==
  [][\A r \in Slots :
       (/\ is_some(reqs[r].idempotency_key)
        /\ reqs[r].op \in IdempotentOps
        /\ Len(reqs'[r].saved) > Len(reqs[r].saved)) =>
         LET call == reqs'[r].saved[Len(reqs'[r].saved)]
             k == unwrap(reqs[r].idempotency_key)
         IN  /\ reqs[r].worked
             /\ reqs[r].found = None
             /\ k \in DOMAIN cache'
             /\ cache'[k] = SavedRecord(call)]_vars

\* two overlapping send_money requests with one key and one input have both
\* found the key absent, both broadcast a transaction and both saved
C23_Witness ==
  \E r, s \in Slots :
    /\ r # s
    /\ reqs[r].op = "send_money" /\ reqs[s].op = "send_money"
    /\ is_some(reqs[r].idempotency_key)
    /\ reqs[r].idempotency_key = reqs[s].idempotency_key
    /\ reqs[r].input_hash = reqs[s].input_hash
    /\ reqs[r].found = None /\ reqs[s].found = None
    /\ reqs[r].worked /\ reqs[s].worked
    /\ Len(reqs[r].sent) = 1 /\ Len(reqs[s].sent) = 1
    /\ reqs[r].sent[1].raw.nonce # reqs[s].sent[1].raw.nonce
    /\ reqs[r].saved # <<>> /\ reqs[s].saved # <<>>
    /\ cache[unwrap(reqs[r].idempotency_key)] = SavedRecord(reqs[s].saved[1])

\* the save future the request spawned last
LastSave(req) == req.saved[Len(req.saved)]

MaxNonce == 2

\* helpers.rs test_erc20_make_tx: the recipient address of the test
TEST_TO ==
  hex_decode(<<"c", "9", "2", "b", "e", "4", "8", "9", "6", "3",
               "9", "a", "9", "c", "6", "1", "f", "5", "1", "7",
               "b", "d", "3", "b", "9", "5", "5", "8", "4", "0",
               "f", "a", "1", "9", "b", "c", "9", "b", "7", "c">>)

\* helpers.rs test_erc20_make_tx: the token contract address of the test
TEST_TOKEN ==
  hex_decode(<<"b", "8", "c", "7", "7", "4", "8", "2", "e", "4",
               "5", "f", "1", "f", "4", "4", "d", "e", "1", "7",
               "4", "5", "f", "5", "2", "c", "7", "4", "4", "2",
               "6", "c", "6", "3", "1", "b", "d", "d", "5", "2">>)

\* the arguments make_tx is called with
MakeTxTo == { BOB_ADDR, TEST_TO }

MakeTxValues == { 0, 1, 100, 255, 256, 65536, 16777216, 2147483647 }

MakeTxTokens == { None, Some(TOKEN_ADDR), Some(TEST_TOKEN) }

\* a caller about to call make_tx, in any state of the engine's counters
InitMakeTx ==
  /\ addresses \in InitialAddresses
  /\ cache = <<>>
  /\ cache_hits = 0
  /\ tx_count \in 0..MaxNonce
  /\ reqs = [r \in Slots |-> IdleReq]
  /\ nreq = 0
  /\ history = {}
  /\ previous = NoRequest
  /\ settled = <<>>
  /\ chain_id \in ChainIds
  /\ \E to \in MakeTxTo, value \in MakeTxValues, nonce \in 0..MaxNonce,
        token_address \in MakeTxTokens :
       unit = [pc |-> "args", to |-> to, value |-> value, nonce |-> nonce,
               token_address |-> token_address]
  /\ store_defers = FALSE
  /\ spawned = <<>>

\* the call make_tx(to, value, nonce, token_address)
CallMakeTx ==
  /\ unit.pc = "args"
  /\ unit' = [pc |-> "made", to |-> unit.to, value |-> unit.value,
              nonce |-> unit.nonce, token_address |-> unit.token_address,
              tx |-> make_tx(unit.to, unit.value, unit.nonce, unit.token_address)]
  /\ UNCHANGED <<addresses, cache, cache_hits, tx_count, reqs, nreq, history,
                 previous, settled, chain_id, store_defers, spawned>>

NextMakeTx == CallMakeTx

SpecMakeTx == InitMakeTx /\ [][NextMakeTx]_vars

\* the number a sequence of bytes spells, most significant byte first
RECURSIVE be_value(_)
be_value(bytes) ==
  IF bytes = <<>> THEN 0
  ELSE 256 * be_value(SubSeq(bytes, 1, Len(bytes) - 1)) + bytes[Len(bytes)]

\* C25: make_tx with a token address builds an ERC-20 transfer: the to field
\* is the token address, the value 0, the gas limit 70000, the gas price
\* 20000, the nonce the one passed in, and the data are 68 bytes: the
\* selector a9 05 9c bb, twelve zero bytes and the twenty bytes of the
\* recipient, then thirty-two bytes spelling the amount big-endian.
C25_Erc20Transfer ==
  (unit.pc = "made" /\ is_some(unit.token_address)) =>
    LET tx == unit.tx IN
      /\ tx.to = unit.token_address
      /\ tx.value = 0
      /\ tx.gas = 70000
      /\ tx.gas_price = 20000
      /\ tx.nonce = unit.nonce
      /\ Len(tx.data) = 68
      /\ SubSeq(tx.data, 1, 4) = <<169, 5, 156, 187>>
      /\ \A i \in 5..16 : tx.data[i] = 0
      /\ SubSeq(tx.data, 17, 36) = unit.to
      /\ \A i \in 37..68 : tx.data[i] \in 0..255
      /\ be_value(SubSeq(tx.data, 37, 68)) = unit.value

\* an ERC-20 transfer of 2^31 - 1 to the test's recipient was built: the
\* amount fills the last four bytes of the data
C25_Witness ==
  /\ unit.pc = "made"
  /\ unit.token_address = Some(TEST_TOKEN)
  /\ unit.to = TEST_TO
  /\ unit.to[1] = 201
  /\ unit.value = 2147483647
  /\ unit.nonce = 1
  /\ SubSeq(unit.tx.data, 65, 68) = <<127, 255, 255, 255>>

\* C26: make_tx without a token address builds a native transfer: the to
\* field is the recipient, the value the amount, the data empty, the gas
\* limit 21000, the gas price 20000, the nonce the one passed in; every
\* field is fixed by the arguments, whatever the chain id or the
\* transaction count of the caller.
C26_NativeTransfer ==
  (unit.pc = "made" /\ ~is_some(unit.token_address)) =>
    unit.tx = [to |-> Some(unit.to), nonce |-> unit.nonce, data |-> <<>>,
               gas |-> 21000, gas_price |-> 20000, value |-> unit.value]

\* a native transfer of 100 with nonce 2 was built by a caller on chain 4
\* whose transaction count is 0
C26_Witness ==
  /\ unit.pc = "made"
  /\ unit.token_address = None
  /\ unit.to = BOB_ADDR
  /\ unit.value = 100
  /\ unit.nonce = 2
  /\ chain_id = 4
  /\ tx_count = 0
  /\ unit.tx.value = 100
  /\ unit.tx.gas = 21000

(* ----------------------- the address store alone ----------------------- *)

MaxIds == 2

\* the sequences of 1..n elements of S
SeqsUpTo(S, n) == UNION { [1..k -> S] : k \in 1..n }

\* account ids of the calls
StoreAccountIds == 0..MaxIds

\* save_account_addresses(account_ids, data) as its callers call it: one
\* Addresses per account id, each account named once
SaveIds ==
  { s \in SeqsUpTo(StoreAccountIds, MaxIds) :
      \A i, j \in 1..Len(s) : i # j => s[i] # s[j] }

AddressRecords ==
  { <<BOB_ADDR, None>>, <<BOB_ADDR, Some(TOKEN_ADDR)>>, <<TEST_TO, None>> }

\* a store holding some records, then a caller about to save and to load
InitAddressStore ==
  /\ addresses \in InitialAddresses \cup { [id \in {1} |-> <<TEST_TO, None>>] }
  /\ cache = <<>>
  /\ cache_hits = 0
  /\ tx_count = InitialCount
  /\ reqs = [r \in Slots |-> IdleReq]
  /\ nreq = 0
  /\ history = {}
  /\ previous = NoRequest
  /\ settled = <<>>
  /\ chain_id = TestChainId
  /\ \E account_ids \in SaveIds, load_ids \in SeqsUpTo(StoreAccountIds, MaxIds) :
       \E data \in [1..Len(account_ids) -> AddressRecords] :
         unit = [pc |-> "args", account_ids |-> account_ids, data |-> data,
                 load_ids |-> load_ids, from |-> "args", loaded |-> Err(<<>>)]
  /\ store_defers = FALSE
  /\ spawned = <<>>

\* the call save_account_addresses(account_ids, data)
CallSaveAccountAddresses ==
  /\ unit.pc = "args"
  /\ LET call == save_account_addresses(addresses, unit.account_ids, unit.data) IN
       /\ call.result.ok
       /\ addresses' = call.addresses
  /\ unit' = [unit EXCEPT !.pc = "saved"]
  /\ UNCHANGED <<cache, cache_hits, tx_count, reqs, nreq, history, previous,
                 settled, chain_id, store_defers, spawned>>

\* the call load_account_addresses(load_ids), before or after the save
CallLoadAccountAddresses ==
  /\ unit.pc \in {"args", "saved"}
  /\ unit' = [unit EXCEPT !.pc = "loaded", !.from = unit.pc,
                          !.loaded = load_account_addresses(addresses, unit.load_ids)]
  /\ UNCHANGED <<addresses, cache, cache_hits, tx_count, reqs, nreq, history,
                 previous, settled, chain_id, store_defers, spawned>>

NextAddressStore == CallSaveAccountAddresses \/ CallLoadAccountAddresses

SpecAddressStore == InitAddressStore /\ [][NextAddressStore]_vars

StoreKeys == { None, Some("AJKJNUjM0oyiAN46"), Some("k2"), Some("asdf") }

\* input hashes handed to the store
StoreHashes == { get_hash_of(<<>>), get_hash_of(<<"0">>) }

StoreStatusCodes == { 200, 201, 400, 502 }

\* bodies handed to the store: text, as the engine and settlement_test.rs
\* pass it, and bodies holding a byte that is not UTF-8
StoreBodies == { <<>>, <<"TEST">>, <<"OK">>, <<"0xFF">>, <<"TEST", "0xFE">> }

\* the body is text: no byte of it is outside UTF-8
IsUtf8(data) == \A i \in 1..Len(data) : data[i] \notin {"0xFE", "0xFF"}

\* a cache holding nothing or an older record, then a caller about to save
\* and to load
InitIdempotentStore ==
  /\ addresses = <<>>
  /\ cache \in { <<>>,
                 [k \in {"AJKJNUjM0oyiAN46"} |->
                    [status |-> 400, body |-> <<"old">>, input_hash |-> get_hash_of(<<>>)]] }
  /\ cache_hits = 0
  /\ tx_count = InitialCount
  /\ reqs = [r \in Slots |-> IdleReq]
  /\ nreq = 0
  /\ history = {}
  /\ previous = NoRequest
  /\ settled = <<>>
  /\ chain_id = TestChainId
  /\ \E idempotency_key \in StoreKeys \ {Some("asdf")}, input_hash \in StoreHashes,
        status_code \in StoreStatusCodes, data \in StoreBodies, load_key \in StoreKeys :
       unit = [pc |-> "args", idempotency_key |-> idempotency_key,
               input_hash |-> input_hash, status_code |-> status_code, data |-> data,
               load_key |-> load_key, from |-> "args", before |-> cache,
               loaded |-> Ok(None)]
  /\ store_defers = FALSE
  /\ spawned = <<>>

\* the call save_idempotent_data(idempotency_key, input_hash, status_code, data)
CallSaveIdempotentData ==
  /\ unit.pc = "args"
  /\ cache' = save_idempotent_data(cache, unit.idempotency_key, unit.input_hash,
                                   unit.status_code, unit.data)
  /\ unit' = [unit EXCEPT !.pc = "saved"]
  /\ UNCHANGED <<addresses, cache_hits, tx_count, reqs, nreq, history, previous,
                 settled, chain_id, store_defers, spawned>>

\* the call load_idempotent_data(load_key), before or after the save
CallLoadIdempotentData ==
  /\ unit.pc \in {"args", "saved"}
  /\ LET call == load_idempotent_data(cache, cache_hits, unit.load_key) IN
       /\ unit' = [unit EXCEPT !.pc = "loaded", !.from = unit.pc,
                               !.loaded = call.result]
       /\ cache_hits' = call.cache_hits
  /\ UNCHANGED <<addresses, cache, tx_count, reqs, nreq, history, previous,
                 settled, chain_id, store_defers, spawned>>

NextIdempotentStore == CallSaveIdempotentData \/ CallLoadIdempotentData

SpecIdempotentStore == InitIdempotentStore /\ [][NextIdempotentStore]_vars

\* the key was given to no save: it held no record at the start and is not
\* the key of the save that ran
NeverSaved(k) ==
  /\ unwrap(k) \notin DOMAIN unit.before
  /\ unit.from = "saved" => unit.idempotency_key # k

MaxCalls == 2

\* an account record of the store: accounts:<id> balance, prepaid_amount
AccountRecord(balance, prepaid_amount) ==
  [balance |-> balance, prepaid_amount |-> prepaid_amount]

\* an incoming settlement credited to the balance alone
credit_incoming_settlement_to_balance(account, amount) ==
  AccountRecord(account.balance + amount, account.prepaid_amount)

\* an incoming settlement credited to an account: an account that owes
\* nothing keeps its balance and is prepaid the amount; an account that owes
\* at least the amount owes that much less; otherwise the debt is cleared
\* and what is left of the amount is prepaid
credit_incoming_settlement(account, amount) ==
  IF account.balance >= 0
    THEN AccountRecord(account.balance, account.prepaid_amount + amount)
    ELSE IF 0 - account.balance >= amount
      THEN AccountRecord(account.balance + amount, account.prepaid_amount)
      ELSE AccountRecord(0, account.prepaid_amount + (amount + account.balance))

\* update_balance_for_incoming_settlement crediting every call, whatever
\* its key
update_balance_every_call(account, processed, amount, idempotency_key) ==
  [account |-> credit_incoming_settlement(account, amount),
   processed |-> processed \cup
                   (IF is_some(idempotency_key) THEN {unwrap(idempotency_key)} ELSE {})]

\* update_balance_for_incoming_settlement(account_id, amount, idempotency_key):
\* a call whose key was processed before changes nothing; any other call
\* credits the amount and remembers its key
update_balance_for_incoming_settlement(account, processed, amount, idempotency_key) ==
  IF is_some(idempotency_key) /\ unwrap(idempotency_key) \in processed
    THEN [account |-> account, processed |-> processed]
    ELSE [account |-> credit_incoming_settlement(account, amount),
          processed |-> processed \cup
                          (IF is_some(idempotency_key) THEN {unwrap(idempotency_key)} ELSE {})]

\* settlement_test.rs: the balances account 0 starts with (0 is the fresh
\* account; -200, -100, -40 are set with HSET), and a positive one
StartBalances == { 0, 0 - 200, 0 - 100, 0 - 40, 50 }

StartPrepaid == { 0, 10 }

SettlementAmounts == { 100, 40 }

SettlementKeys == { None, Some("AJKJNUjM0oyiAN46"), Some("k2") }

\* account 0 of the store before any incoming settlement
InitSettlement ==
  /\ addresses = <<>>
  /\ cache = <<>>
  /\ cache_hits = 0
  /\ tx_count = InitialCount
  /\ reqs = [r \in Slots |-> IdleReq]
  /\ nreq = 0
  /\ history = {}
  /\ previous = NoRequest
  /\ settled = <<>>
  /\ chain_id = TestChainId
  /\ \E balance \in StartBalances, prepaid_amount \in StartPrepaid :
       unit = [pc |-> "settlement", account |-> AccountRecord(balance, prepaid_amount),
               processed |-> {}, calls |-> <<>>]
  /\ store_defers = FALSE
  /\ spawned = <<>>

\* one call update_balance_for_incoming_settlement(0, amount, idempotency_key)
CallUpdateBalance(amount, idempotency_key) ==
  /\ unit.pc = "settlement"
  /\ Len(unit.calls) < MaxCalls
  /\ LET call == update_balance_for_incoming_settlement(unit.account, unit.processed,
                                                        amount, idempotency_key) IN
       unit' = [unit EXCEPT
                  !.account = call.account,
                  !.processed = call.processed,
                  !.calls = Append(@, [amount |-> amount,
                                      idempotency_key |-> idempotency_key,
                                      before |-> unit.account,
                                      after |-> call.account])]
  /\ UNCHANGED <<addresses, cache, cache_hits, tx_count, reqs, nreq, history,
                 previous, settled, chain_id, store_defers, spawned>>

NextSettlement ==
  \E amount \in SettlementAmounts, idempotency_key \in SettlementKeys :
    CallUpdateBalance(amount, idempotency_key)

SpecSettlement == InitSettlement /\ [][NextSettlement]_vars

\* the call repeats the amount and the key of an earlier call
Repeats(calls, j) ==
  \E i \in 1..(j - 1) :
    /\ is_some(calls[j].idempotency_key)
    /\ calls[i].idempotency_key = calls[j].idempotency_key
    /\ calls[i].amount = calls[j].amount

Min(a, b) == IF a <= b THEN a ELSE b

Max(a, b) == IF a >= b THEN a ELSE b

C31_SendMoneyAlwaysAnswered ==
  \A r \in Slots :
    (reqs[r].op = "send_money" /\ reqs[r].worked) =>
      /\ reqs[r].pc # "panicked"
      /\ reqs[r].pc = "done" => Answer(reqs[r]).status \in {200, 400, 502}

(* -------------------- the load of the idempotency store ---------------- *)

\* C32: a create_account or send_money call that has ended performed
\* exactly one load of the idempotency store; a request that has touched the
\* address store, read the nonce or broadcast has performed that load
\* before; and in a sequential run a keyed request finds a record exactly
\* when an earlier request with its key was answered after its own WORK or
\* replay, so that m requests after the first make cache_hits m.
C32_OneLoadBeforeAnythingElse ==
  \A r \in Slots :
    LET req == reqs[r] IN
      req.op \in IdempotentOps =>
        /\ req.pc \in {"done", "panicked"} => req.loads = 1
        /\ (\/ req.store_writes > 0
            \/ is_some(req.to)
            \/ req.nonce_reads > 0
            \/ req.sent # <<>>) => req.loads = 1
        /\ (req.loads = 1 /\ is_some(req.idempotency_key) /\ ~req.lookup_failed) =>
             (is_some(req.found) <=>
                \E h \in history : h.key = unwrap(req.idempotency_key))

(* ------------------- where idempotency records come from --------------- *)

\* C33: every record of the idempotency store under a key is the status and
\* body of the response of a request with that key to its own WORK, with
\* the input hash of that request: a request still in its task, or one
\* answered before; and a request answered by its lookup (replay, 409, 500)
\* has called no save.
C33_RecordsComeFromWork ==
  /\ \A k \in DOMAIN cache :
       \/ \E r \in Slots :
            /\ reqs[r].worked
            /\ reqs[r].pc = "done"
            /\ reqs[r].idempotency_key = Some(k)
            /\ reqs[r].saved # <<>>
            /\ cache[k] = [status |-> Answer(reqs[r]).status,
                           body |-> Answer(reqs[r]).body,
                           input_hash |-> reqs[r].input_hash]
       \/ \E h \in history :
            /\ h.key = k
            /\ cache[k] = [status |-> h.status, body |-> h.out,
                           input_hash |-> h.input_hash]
  /\ \A r \in Slots :
       (reqs[r].op \in IdempotentOps /\ reqs[r].pc = "done" /\ ~reqs[r].worked) =>
         reqs[r].saved = <<>>

\* a request was answered 409 by its lookup while the key holds the 201 of
\* the request that created the account
C33_Witness ==
  \E r \in Slots :
    /\ reqs[r].pc = "done"
    /\ ~reqs[r].worked
    /\ Answer(reqs[r]).status = 409
    /\ is_some(reqs[r].idempotency_key)
    /\ unwrap(reqs[r].idempotency_key) \in DOMAIN cache
    /\ cache[unwrap(reqs[r].idempotency_key)].status = 201
    /\ cache[unwrap(reqs[r].idempotency_key)].input_hash # reqs[r].input_hash

(* ---------------------- who writes the address store ------------------- *)

\* C34: the address store changes only in the step of a create_account
\* request that, after a lookup that found no record, reaches the store
\* save; send_money, receive_message and get_account requests, requests
\* answered by a replay or a conflict, and create_account requests that end
\* in an error have written nothing to it.
C34_OnlyCreateAccountWrites ==
  [][/\ addresses' # addresses =>
          \E r \in Slots :
            /\ reqs[r].op = "create_account"
            /\ reqs[r].pc = "work"
            /\ reqs[r].worked
            /\ ~is_some(reqs[r].found)
            /\ reqs'[r].pc = "created"
            /\ reqs'[r].store_writes = 1
     /\ \A r \in Slots :
          LET req == reqs'[r] IN
            (\/ req.op \in {"send_money", "receive_message", "get_account"}
             \/ is_some(req.found)
             \/ (req.op = "create_account" /\ req.pc = "done" /\ ~Answer(req).ok)) =>
              req.store_writes = 0]_vars

\* a create_account wrote the record of account 42 and was answered 201,
\* and a send_money for that account then ended having written nothing
C34_Witness ==
  /\ 42 \in DOMAIN addresses
  /\ \E h \in history : h.op = "create_account" /\ h.status = 201
                          /\ h.account_id = <<"4", "2">>
  /\ \E r \in Slots :
       /\ reqs[r].op = "send_money"
       /\ reqs[r].account_id = <<"4", "2">>
       /\ reqs[r].pc = "done"
       /\ reqs[r].store_before = addresses

(* ------------------------------ serde_json ----------------------------- *)

\* serde_json::Value
JsonNull == [t |-> "null"]

JsonBool(b) == [t |-> "bool", v |-> b]

JsonNumber(n) == [t |-> "number", v |-> n]

JsonString(s) == [t |-> "string", v |-> s]

JsonArray(items) == [t |-> "array", v |-> items]

JsonObject(map) == [t |-> "object", v |-> map]

\* the text without its leading spaces
RECURSIVE skip_whitespace(_)
skip_whitespace(s) ==
  IF s # <<>> /\ s[1] = " " THEN skip_whitespace(Tail(s)) ELSE s

\* the result of parsing a prefix of the text: the value and the text left
Parsed(val, rest) == [ok |-> TRUE, val |-> val, rest |-> rest]

ParseError == [ok |-> FALSE, val |-> JsonNull, rest |-> <<>>]

\* the text starts with the word
StartsWith(s, word) == Len(s) >= Len(word) /\ SubSeq(s, 1, Len(word)) = word

\* a string: the characters up to the closing quote; none of the inputs
\* holds an escape, and a backslash is taken as an error
parse_string(s) ==
  IF s = <<>> \/ s[1] # "\"" THEN ParseError
  ELSE LET closing == { i \in 2..Len(s) : s[i] = "\"" } IN
         IF closing = {} THEN ParseError
         ELSE LET end == CHOOSE i \in closing : \A j \in closing : i <= j IN
                IF \E i \in 2..(end - 1) : s[i] = "\\" THEN ParseError
                ELSE Parsed(SubSeq(s, 2, end - 1), SubSeq(s, end + 1, Len(s)))

\* a number: 0, or digits that do not start with 0
parse_number(s) ==
  IF s = <<>> \/ ~IsDigit(s[1]) THEN ParseError
  ELSE IF s[1] = "0" THEN Parsed(JsonNumber(0), Tail(s))
  ELSE LET stops == { i \in 1..Len(s) : ~IsDigit(s[i]) }
           end == IF stops = {} THEN Len(s)
                  ELSE (CHOOSE i \in stops : \A j \in stops : i <= j) - 1
       IN  Parsed(JsonNumber(digits_value(SubSeq(s, 1, end))), SubSeq(s, end + 1, Len(s)))

RECURSIVE parse_value(_), parse_members(_, _), parse_elements(_, _)

\* the members of an object after its opening brace or after a comma
parse_members(s, map) ==
  LET key == parse_string(skip_whitespace(s)) IN
    IF ~key.ok THEN ParseError
    ELSE LET colon == skip_whitespace(key.rest) IN
      IF colon = <<>> \/ colon[1] # ":" THEN ParseError
      ELSE LET member == parse_value(Tail(colon)) IN
        IF ~member.ok THEN ParseError
        ELSE LET next == skip_whitespace(member.rest)
                 found == insert(map, key.val, member.val)
             IN  IF next = <<>> THEN ParseError
                 ELSE IF next[1] = "}" THEN Parsed(JsonObject(found), Tail(next))
                 ELSE IF next[1] = "," THEN parse_members(Tail(next), found)
                 ELSE ParseError

\* the elements of an array after its opening bracket or after a comma
parse_elements(s, items) ==
  LET element == parse_value(s) IN
    IF ~element.ok THEN ParseError
    ELSE LET next == skip_whitespace(element.rest)
             found == Append(items, element.val)
         IN  IF next = <<>> THEN ParseError
             ELSE IF next[1] = "]" THEN Parsed(JsonArray(found), Tail(next))
             ELSE IF next[1] = "," THEN parse_elements(Tail(next), found)
             ELSE ParseError

\* one JSON value at the head of the text
parse_value(text) ==
  LET s == skip_whitespace(text) IN
    IF s = <<>> THEN ParseError
    ELSE IF s[1] = "{"
      THEN LET inner == skip_whitespace(Tail(s)) IN
             IF inner # <<>> /\ inner[1] = "}"
               THEN Parsed(JsonObject(<<>>), Tail(inner))
               ELSE parse_members(inner, <<>>)
    ELSE IF s[1] = "["
      THEN LET inner == skip_whitespace(Tail(s)) IN
             IF inner # <<>> /\ inner[1] = "]"
               THEN Parsed(JsonArray(<<>>), Tail(inner))
               ELSE parse_elements(inner, <<>>)
    ELSE IF s[1] = "\""
      THEN LET str == parse_string(s) IN
             IF str.ok THEN Parsed(JsonString(str.val), str.rest) ELSE ParseError
    ELSE IF IsDigit(s[1]) THEN parse_number(s)
    ELSE IF StartsWith(s, <<"n", "u", "l", "l">>)
      THEN Parsed(JsonNull, SubSeq(s, 5, Len(s)))
    ELSE IF StartsWith(s, <<"t", "r", "u", "e">>)
      THEN Parsed(JsonBool(TRUE), SubSeq(s, 5, Len(s)))
    ELSE IF StartsWith(s, <<"f", "a", "l", "s", "e">>)
      THEN Parsed(JsonBool(FALSE), SubSeq(s, 6, Len(s)))
    ELSE ParseError

\* serde_json::from_slice::<Value>: one value and nothing but spaces after it
from_slice(data) ==
  LET parsed == parse_value(data) IN
    IF parsed.ok /\ skip_whitespace(parsed.rest) = <<>>
      THEN Ok(parsed.val)
      ELSE Err(<<>>)

(* ----------------------- SettlementMessageService ---------------------- *)

\* message_service.rs PEER_FULFILLMENT: [0; 32]
PEER_FULFILLMENT == [i \in 1..32 |-> 0]

\* interledger_packet Fulfill and Reject as the builders fill them
Fulfill(fulfillment, data) == [type |-> "fulfill", fulfillment |-> fulfillment, data |-> data]

Reject(code, message, triggered_by) ==
  [type |-> "reject", code |-> code, message |-> message, data |-> <<>>,
   triggered_by |-> Some(triggered_by)]

\* hyper StatusCode::is_client_error
is_client_error(status) == status >= 400 /\ status < 500

\* StatusCode::canonical_reason of the statuses an engine answers with
canonical_reason(status) ==
  CASE status = 200 -> "OK"
    [] status = 201 -> "Created"
    [] status = 301 -> "Moved Permanently"
    [] status = 400 -> "Bad Request"
    [] status = 404 -> "Not Found"
    [] status = 409 -> "Conflict"
    [] status = 500 -> "Internal Server Error"
    [] status = 502 -> "Bad Gateway"
    [] OTHER -> "<unknown status code>"

\* the key "accountId" as the parser spells keys
ACCOUNT_ID_KEY == <<"a", "c", "c", "o", "u", "n", "t", "I", "d">>

\* the POST of a message left as the account sent it
post_message_unlabelled(from, message) ==
  [url |-> Append(unwrap(from.settlement_engine_details).url, "receiveMessage"),
   json |-> JsonObject(message)]

\* handle_request, lines 55-65: the message with accountId set to the id of
\* the sending account, posted to <engine url>/receiveMessage
post_message(from, message) ==
  [url |-> Append(unwrap(from.settlement_engine_details).url, "receiveMessage"),
   json |-> JsonObject(insert(message, ACCOUNT_ID_KEY, JsonString(to_string(from.id))))]

\* the ILP result with every refusal of the engine counted as T00
ilp_result_always_t00(ilp_address, answer) ==
  IF ~answer.sent
    THEN Reject("T00", <<"Error sending message to settlement engine">>, ilp_address)
    ELSE IF is_success(answer.status)
      THEN IF answer.body_read
             THEN Fulfill(PEER_FULFILLMENT, answer.body)
             ELSE Reject("T00", <<"Error getting settlement engine response">>, ilp_address)
      ELSE Reject("T00",
                  <<"Settlement engine rejected request with error code: ">>
                    \o to_string(answer.status) \o <<" ", canonical_reason(answer.status)>>,
                  ilp_address)

\* handle_request, lines 67-108: the ILP result for what came back from the
\* POST: a transport error, or a status and a body that could be read or not
ilp_result(ilp_address, answer) ==
  IF ~answer.sent
    THEN Reject("T00", <<"Error sending message to settlement engine">>, ilp_address)
    ELSE IF is_success(answer.status)
      THEN IF answer.body_read
             THEN Fulfill(PEER_FULFILLMENT, answer.body)
             ELSE Reject("T00", <<"Error getting settlement engine response">>, ilp_address)
      ELSE Reject(IF is_client_error(answer.status) THEN "F00" ELSE "T00",
                  <<"Settlement engine rejected request with error code: ">>
                    \o to_string(answer.status) \o <<" ", canonical_reason(answer.status)>>,
                  ilp_address)

\* what handle_request does before any answer: pass the request on, reject
\* it, or post the message
PassedOn(request) ==
  [pc |-> "next", posts |-> <<>>, next_requests |-> <<request>>, result |-> None]

Rejected(reject) ==
  [pc |-> "answered", posts |-> <<>>, next_requests |-> <<>>, result |-> Some(reject)]

Posted(post) ==
  [pc |-> "posted", posts |-> <<post>>, next_requests |-> <<>>, result |-> None]

\* handle_request refusing the requests of accounts without engine details
handle_request_needs_details(ilp_address, request) ==
  IF is_some(request.from.settlement_engine_details)
       /\ request.prepare.destination = unwrap(request.from.settlement_engine_details).ilp_address
    THEN LET parsed == from_slice(request.prepare.data) IN
           IF parsed.ok /\ parsed.val.t = "object"
             THEN Posted(post_message(request.from, parsed.val.v))
             ELSE Rejected(Reject("F00", <<"Unable to parse message as a JSON object">>,
                                  ilp_address))
    ELSE IF is_some(request.from.settlement_engine_details)
      THEN PassedOn(request)
      ELSE Rejected(Reject("F02", <<>>, ilp_address))

\* SettlementMessageService::handle_request up to the POST
handle_request(ilp_address, request) ==
  IF is_some(request.from.settlement_engine_details)
    THEN LET settlement_engine_details == unwrap(request.from.settlement_engine_details) IN
      IF request.prepare.destination = settlement_engine_details.ilp_address
        THEN LET parsed == from_slice(request.prepare.data) IN
          IF parsed.ok /\ parsed.val.t = "object"
            THEN Posted(post_message(request.from, parsed.val.v))
            ELSE IF ~parsed.ok
              THEN Rejected(Reject("F00", <<"Unable to parse message as JSON: ", "Error">>,
                                   ilp_address))
              ELSE Rejected(Reject("F00", <<"Unable to parse message as a JSON object">>,
                                   ilp_address))
        ELSE Rejected(Reject("F02", <<>>, ilp_address))
    ELSE PassedOn(request)

\* the ILP address the service is constructed with
SERVICE_ADDRESS == "example.connector"

\* ILP addresses of settlement engines and of another destination
ENGINE_ADDRESS == "peer.settle.eth"

OTHER_ADDRESS == "example.bob"

\* the accounts requests come from: without engine details, and with them
ServiceAccounts ==
  { [id |-> 0, settlement_engine_details |-> None],
    [id |-> 1, settlement_engine_details |->
                 Some([url |-> <<"http://localhost:3000">>, ilp_address |-> ENGINE_ADDRESS])],
    [id |-> 42, settlement_engine_details |->
                  Some([url |-> <<"http://localhost:3000">>, ilp_address |-> ENGINE_ADDRESS])] }

\* the data of the Prepare packets: JSON objects, other JSON, and text that
\* is not JSON
MessageData ==
  { <<"{", "}">>,
    <<"{", "\"", "a", "\"", ":", "1", "}">>,
    <<" ", "{", "\"", "a", "\"", ":", " ", "[", "1", ",", "n", "u", "l", "l", "]", "}", " ">>,
    <<"{", "\"", "a", "c", "c", "o", "u", "n", "t", "I", "d", "\"", ":", "\"", "9", "\"", "}">>,
    <<"[", "1", "]">>,
    <<"1", "2">>,
    <<"\"", "x", "\"">>,
    <<"n", "u", "l", "l">>,
    <<>>,
    <<"{">>,
    <<"{", "\"", "a", "\"", "}">>,
    <<"{", "}", "x">>,
    <<"x">> }

\* what comes back from the POST: a transport error, or a status with a body
\* that can be read or not
EngineStatusCodes == { 200, 201, 301, 400, 404, 409, 500, 502 }

EngineAnswers ==
  { [sent |-> FALSE, status |-> 0, body_read |-> FALSE, body |-> <<>>] }
    \cup [sent : {TRUE}, status : EngineStatusCodes, body_read : BOOLEAN,
          body : { <<>>, <<"OK">> }]

\* what the next service answers
NextAnswers ==
  { Fulfill([i \in 1..32 |-> 7], <<"next">>), Reject("F02", <<>>, OTHER_ADDRESS) }

\* an incoming request about to be handled
InitMessageService ==
  /\ addresses = <<>>
  /\ cache = <<>>
  /\ cache_hits = 0
  /\ tx_count = InitialCount
  /\ reqs = [r \in Slots |-> IdleReq]
  /\ nreq = 0
  /\ history = {}
  /\ previous = NoRequest
  /\ settled = <<>>
  /\ chain_id = TestChainId
  /\ \E from \in ServiceAccounts, destination \in {ENGINE_ADDRESS, OTHER_ADDRESS},
        data \in MessageData :
       unit = [pc |-> "request",
               request |-> [from |-> from,
                            prepare |-> [destination |-> destination, data |-> data]],
               posts |-> <<>>, next_requests |-> <<>>, result |-> None,
               answer |-> None]
  /\ store_defers = FALSE
  /\ spawned = <<>>

\* handle_request is called with the request
HandleRequest ==
  /\ unit.pc = "request"
  /\ LET handled == handle_request(SERVICE_ADDRESS, unit.request) IN
       unit' = [unit EXCEPT !.pc = handled.pc, !.posts = handled.posts,
                            !.next_requests = handled.next_requests,
                            !.result = handled.result]
  /\ UNCHANGED <<addresses, cache, cache_hits, tx_count, reqs, nreq, history,
                 previous, settled, chain_id, store_defers, spawned>>

\* the POST resolves and the future of handle_request with it
EngineResponds(answer) ==
  /\ unit.pc = "posted"
  /\ unit' = [unit EXCEPT !.pc = "answered", !.answer = Some(answer),
                          !.result = Some(ilp_result(SERVICE_ADDRESS, answer))]
  /\ UNCHANGED <<addresses, cache, cache_hits, tx_count, reqs, nreq, history,
                 previous, settled, chain_id, store_defers, spawned>>

\* the next service resolves: its answer is the answer of handle_request
NextResponds(answer) ==
  /\ unit.pc = "next"
  /\ unit' = [unit EXCEPT !.pc = "answered", !.result = Some(answer)]
  /\ UNCHANGED <<addresses, cache, cache_hits, tx_count, reqs, nreq, history,
                 previous, settled, chain_id, store_defers, spawned>>

NextMessageService ==
  \/ HandleRequest
  \/ \E answer \in EngineAnswers : EngineResponds(answer)
  \/ \E answer \in NextAnswers : NextResponds(answer)

SpecMessageService == InitMessageService /\ [][NextMessageService]_vars

\* the request has been through handle_request
Handled == unit.pc \in {"posted", "next", "answered"}

\* the sending account has engine details and the request is addressed to
\* the ILP address they name
ToOwnEngine(request) ==
  /\ is_some(request.from.settlement_engine_details)
  /\ request.prepare.destination = unwrap(request.from.settlement_engine_details).ilp_address

\* C35: the service handles a request only if its destination is the ILP
\* address of the sending account's settlement engine; a request from an
\* account with engine details and another destination is passed to the
\* next service, without a POST and without an answer of this service.
C35_OtherDestinationPassedOn ==
  Handled =>
    /\ (unit.posts # <<>> \/ unit.next_requests = <<>>) => ToOwnEngine(unit.request)
    /\ (/\ is_some(unit.request.from.settlement_engine_details)
        /\ ~ToOwnEngine(unit.request)) =>
         /\ unit.next_requests = <<unit.request>>
         /\ unit.posts = <<>>

\* C36: a request from an account without settlement-engine details is
\* passed to the next service as it came in, and no POST is sent for it.
C36_NoDetailsPassedOn ==
  (Handled /\ ~is_some(unit.request.from.settlement_engine_details)) =>
    /\ unit.next_requests = <<unit.request>>
    /\ unit.posts = <<>>
    /\ unit.pc = "answered" => unwrap(unit.result) \in NextAnswers

\* a request of the account without details, addressed to an engine and
\* carrying a JSON object, was answered by the next service
C36_Witness ==
  /\ unit.pc = "answered"
  /\ unit.request.from.id = 0
  /\ unit.request.from.settlement_engine_details = None
  /\ unit.request.prepare.destination = ENGINE_ADDRESS
  /\ unit.request.prepare.data = <<"{", "}">>
  /\ unit.next_requests = <<unit.request>>
  /\ unwrap(unit.result).type = "fulfill"

\* C37: the ILP result of a forwarded request follows the engine's answer:
\* a 2xx status whose body could be read gives a Fulfill with the all-zero
\* fulfillment and the body as data; a 4xx status gives a Reject F00; any
\* other status, a transport error or a body that could not be read gives a
\* Reject T00.
C37_ResultFollowsEngineAnswer ==
  (Handled /\ unit.pc = "answered" /\ is_some(unit.answer)) =>
    LET answer == unwrap(unit.answer)
        result == unwrap(unit.result)
    IN  IF answer.sent /\ answer.status \in 200..299 /\ answer.body_read
          THEN /\ result.type = "fulfill"
               /\ result.fulfillment = [i \in 1..32 |-> 0]
               /\ result.data = answer.body
          ELSE IF answer.sent /\ answer.status \in 400..499
            THEN result.type = "reject" /\ result.code = "F00"
            ELSE result.type = "reject" /\ result.code = "T00"

\* the engine answered 404 and the request was rejected with F00
C37_Witness ==
  /\ unit.pc = "answered"
  /\ unit.answer # None
  /\ unwrap(unit.answer).sent
  /\ unwrap(unit.answer).status = 404
  /\ unwrap(unit.result).type = "reject"
  /\ unwrap(unit.result).code = "F00"
  /\ Len(unit.posts) = 1

\* the texts among the data that are JSON objects
JsonObjectTexts ==
  { <<"{", "}">>,
    <<"{", "\"", "a", "\"", ":", "1", "}">>,
    <<" ", "{", "\"", "a", "\"", ":", " ", "[", "1", ",", "n", "u", "l", "l", "]", "}", " ">>,
    <<"{", "\"", "a", "c", "c", "o", "u", "n", "t", "I", "d", "\"", ":", "\"", "9", "\"", "}">> }

\* C38: a request addressed to the account's engine whose data are not a
\* JSON object (not JSON at all, or JSON of another kind) is rejected with
\* F00 and no POST is sent; when the data are a JSON object exactly one POST
\* is sent, to <engine url>/receiveMessage, carrying the fields of that
\* object with accountId set to the id of the sending account.
C38_OnlyJsonObjectsPosted ==
  (Handled /\ ToOwnEngine(unit.request)) =>
    IF unit.request.prepare.data \in JsonObjectTexts
      THEN /\ Len(unit.posts) = 1
           /\ unit.next_requests = <<>>
           /\ LET post == unit.posts[1]
                  sent == from_slice(unit.request.prepare.data).val.v
              IN  /\ post.url = Append(unwrap(unit.request.from.settlement_engine_details).url,
                                       "receiveMessage")
                  /\ post.json.t = "object"
                  /\ DOMAIN post.json.v = DOMAIN sent \cup {ACCOUNT_ID_KEY}
                  /\ post.json.v[ACCOUNT_ID_KEY] =
                       JsonString(to_string(unit.request.from.id))
                  /\ \A k \in DOMAIN sent \ {ACCOUNT_ID_KEY} : post.json.v[k] = sent[k]
      ELSE /\ unit.posts = <<>>
           /\ unit.next_requests = <<>>
           /\ unit.pc = "answered"
           /\ unwrap(unit.result).type = "reject"
           /\ unwrap(unit.result).code = "F00"

\* account 42 sent an object that names account 9: one POST went out, with
\* accountId "42"
C38_Witness ==
  /\ unit.pc = "posted"
  /\ unit.request.from.id = 42
  /\ unit.request.prepare.data =
       <<"{", "\"", "a", "c", "c", "o", "u", "n", "t", "I", "d", "\"", ":", "\"", "9", "\"", "}">>
  /\ Len(unit.posts) = 1
  /\ unit.posts[1].json.v[ACCOUNT_ID_KEY] = JsonString(<<"4", "2">>)
  /\ unit.posts[1].url = <<"http://localhost:3000", "receiveMessage">>

====
